---------------------------- MODULE Spec2Model ----------------------------
(***************************************************************************)
(* The two parallel sorting engines of src/example/main.go.                *)
(*                                                                         *)
(*   ParallelQuickSort  a caller goroutine, `workers` worker goroutines, a *)
(*                      buffered channel of jobs and a sync.WaitGroup.     *)
(*                      The file holds two versions of the engine: the     *)
(*                      one of lines 193-294 (channel of `workers` slots,  *)
(*                      partitionMedian) and the one of lines 310-400      *)
(*                      (channel of workers*128 slots, partition3Way).     *)
(*   ParallelRadixSort  a caller goroutine that runs one counting pass per *)
(*                      base-256 digit, each pass fanning out `workers`    *)
(*                      histogram goroutines and joining them.             *)
(*                                                                         *)
(* Array indices are those of the Go code (from 0); the TLA+ sequence that *)
(* holds the array is read through At and written through Put.             *)
(*                                                                         *)
(* Scale.  Three quantities of the code are too large to enumerate and are *)
(* scaled down, each keeping the property that decides the behaviour:      *)
(*   sortThreshold  2048 in the code, 2 here: ranges of at most            *)
(*                  sortThreshold elements go to the library sort, longer  *)
(*                  ones are partitioned;                                  *)
(*   the channel    `workers` and `workers*128` slots in the code; here    *)
(*                  the factor ranges over QueueFactors, 1 being the       *)
(*                  regime where the channel fills (which the code reaches *)
(*                  on arrays of millions of elements) and 128 the regime  *)
(*                  where it never does;                                   *)
(*   int            64 bits (8 base-256 digits) in the code, IntDigits     *)
(*                  base-256 digits here: as in the code, base^IntDigits   *)
(*                  wraps to exactly 0.                                    *)
(***************************************************************************)
EXTENDS Integers, Sequences, FiniteSets, TLC

\* ------------------------------------------------------------------ bounds
\* Longest input array given to ParallelQuickSort.
MaxLen == 5
\* Longest input array given to ParallelRadixSort.
MaxLenRadix == 3
\* Largest worker count.
MaxWorkers == 2
\* Largest channel capacity of the free-capacity specification SpecCap.
MaxCap == 2
\* Length of the input arrays of the full-queue specification SpecFallback.
MaxLenFallback == 7
\* Largest worker count of the chunking specification SpecChunk.
MaxChunkWorkers == 4

\* --------------------------------------------------------- program constants
sortThreshold == 2
base == 256
IntDigits == 3
QueueFactors == {1, 128}

\* ---------------------------------------------------------- machine integers
RECURSIVE Pow(_, _)
Pow(b, k) == IF k = 0 THEN 1 ELSE b * Pow(b, k - 1)

IntModulus == Pow(base, IntDigits)
MaxInt == (IntModulus \div 2) - 1
MinInt == -(IntModulus \div 2)

\* Two's-complement wrap-around of an arithmetic result.
Wrap(x) == ((x - MinInt) % IntModulus) + MinInt

\* Go's integer division truncates toward zero; the remainder takes the sign
\* of the dividend.  Both are used with y > 0 only (y = 0 panics before).
GoDiv(x, y) == IF x >= 0 THEN x \div y ELSE -((-x) \div y)
GoMod(x, y) == x - y * GoDiv(x, y)

\* ------------------------------------------------------------------- arrays
At(a, i) == a[i + 1]
Put(a, i, v) == [a EXCEPT ![i + 1] = v]
Swap(a, i, j) == [a EXCEPT ![i + 1] = a[j + 1], ![j + 1] = a[i + 1]]

Range(a) == {a[i] : i \in DOMAIN a}

IsSorted(a) == \A i \in 1..(Len(a) - 1) : a[i] <= a[i + 1]

CountOf(a, v) == Cardinality({i \in DOMAIN a : a[i] = v})

SameMultiset(a, b) ==
    /\ Len(a) = Len(b)
    /\ \A v \in Range(a) \cup Range(b) : CountOf(a, v) = CountOf(b, v)

\* The library sort (slices.Sort, sort.Ints) on arr[lo : hi+1]: an insertion
\* sort of the slice, the rest of the array untouched.
RECURSIVE InsertSorted(_, _)
InsertSorted(s, v) ==
    IF s = <<>> THEN <<v>>
    ELSE IF v < Head(s) THEN <<v>> \o s
    ELSE <<Head(s)>> \o InsertSorted(Tail(s), v)

RECURSIVE SortInts(_)
SortInts(s) == IF s = <<>> THEN <<>> ELSE InsertSorted(SortInts(Tail(s)), Head(s))

\* Mutant of SortRange: the library sort is given the whole array.
SortRangeWhole(a, lo, hi) == SortInts(a)

\* Mutant of SortRange: the slice is arr[lo : hi], without its last element.
SortRangeExclusive(a, lo, hi) ==
    LET sorted == SortInts(SubSeq(a, lo + 1, hi))
    IN  [i \in DOMAIN a |->
            IF i >= lo + 1 /\ i <= hi THEN sorted[i - lo] ELSE a[i]]

SortRange(a, lo, hi) ==
    LET sorted == SortInts(SubSeq(a, lo + 1, hi + 1))
    IN  [i \in DOMAIN a |->
            IF i >= lo + 1 /\ i <= hi + 1 THEN sorted[i - lo] ELSE a[i]]

\* ------------------------------------------------------- partitioning
\* Mutant of MedianOfThree: the low sample is taken at index 0 of the slice
\* and not at lo.
MedianOfThreeFromZero(a, lo, hi) ==
    LET mid == lo + ((hi - lo) \div 2)
        a1 == IF At(a, mid) < At(a, 0) THEN Swap(a, mid, 0) ELSE a
        a2 == IF At(a1, hi) < At(a1, 0) THEN Swap(a1, hi, 0) ELSE a1
    IN  IF At(a2, hi) < At(a2, mid) THEN Swap(a2, hi, mid) ELSE a2

\* The three compare-and-swap steps shared by both partition functions.
MedianOfThree(a, lo, hi) ==
    LET mid == lo + ((hi - lo) \div 2)
        a1 == IF At(a, mid) < At(a, lo) THEN Swap(a, mid, lo) ELSE a
        a2 == IF At(a1, hi) < At(a1, lo) THEN Swap(a1, hi, lo) ELSE a1
    IN  IF At(a2, hi) < At(a2, mid) THEN Swap(a2, hi, mid) ELSE a2

\* The Dutch-flag loop `for i <= gt` of partition3Way.
RECURSIVE DutchFlag(_, _, _, _, _)
DutchFlag(a, lt, i, gt, pivot) ==
    IF i > gt THEN [arr |-> a, lt |-> lt, gt |-> gt]
    ELSE IF At(a, i) < pivot THEN DutchFlag(Swap(a, lt, i), lt + 1, i + 1, gt, pivot)
    ELSE IF At(a, i) > pivot THEN DutchFlag(Swap(a, i, gt), lt, i, gt - 1, pivot)
    ELSE DutchFlag(a, lt, i + 1, gt, pivot)

\* Mutant of partition3Way: the returned lt is one too small, so the last
\* element of the `< pivot` zone is left out of the first sub-range.
partition3WayShortLeft(a, lo, hi) ==
    LET mid == lo + ((hi - lo) \div 2)
        m == MedianOfThree(a, lo, hi)
        r == DutchFlag(m, lo, lo, hi, At(m, mid))
    IN  [r EXCEPT !.lt = IF r.lt > lo THEN r.lt - 1 ELSE r.lt]

partition3Way(a, lo, hi) ==
    LET mid == lo + ((hi - lo) \div 2)
        m == MedianOfThree(a, lo, hi)
    IN  DutchFlag(m, lo, lo, hi, At(m, mid))

\* The loop `for j := lo; j < hi; j++` of partitionMedian.
RECURSIVE Lomuto(_, _, _, _, _)
Lomuto(a, i, j, hi, pivot) ==
    IF j >= hi THEN [arr |-> Swap(a, i, hi), lt |-> i, gt |-> i]
    ELSE IF At(a, j) <= pivot THEN Lomuto(Swap(a, i, j), i + 1, j + 1, hi, pivot)
    ELSE Lomuto(a, i, j + 1, hi, pivot)

\* partitionMedian returns one index p; it is given here as lt = gt = p, so
\* that the sub-ranges are [lo, lt-1] and [gt+1, hi] in both versions.
partitionMedian(a, lo, hi) ==
    LET mid == lo + ((hi - lo) \div 2)
        m == Swap(MedianOfThree(a, lo, hi), mid, hi)
    IN  Lomuto(m, lo, lo, hi, At(m, hi))

Partition(v, a, lo, hi) ==
    IF v = "threeway" THEN partition3Way(a, lo, hi) ELSE partitionMedian(a, lo, hi)

\* ------------------------------------------------------------------- state
VARIABLES
    alg,        \* "QuickSort" or "RadixSort": the engine main calls (lines 161-165)
    version,    \* "median" (lines 193-294) or "threeway" (lines 310-400)
    factor,     \* slots of the channel per worker (lines 198 and 315)
    workers,    \* the worker count given to the call
    input,      \* the array as it was at the call
    arr,        \* the array, sorted in place
    pc,         \* where the calling goroutine is
    chanMade,   \* whether make(chan ...) has run
    capacity,   \* the channel's capacity
    queue,      \* the jobs buffered in the channel, oldest first
    closed,     \* whether close(jobs) has run
    wg,         \* the WaitGroup's counter
    wk,         \* the worker goroutines: wk[w] = [st, stack]
    jobLog,     \* history: what became of each job, by span <<lo, hi>>
    minVal, offset, maxVal, exp,    \* ParallelRadixSort's locals
    chunkSize, output, localCounts, globalCount,  \* parallelCountingSort's locals
    running,    \* the histogram goroutines of the pass that have not finished
    passes,     \* history: the exp of each pass run, in order
    expt,       \* the *Experiment a constructor returned, or Nil
    err,        \* the error a constructor returned, or NoError
    call,       \* the last call made on the library, with its arguments
    ret,        \* what the last Params call returned
    added,      \* history: the arguments of the AddResult calls, in call order
    part        \* the activation of partition3Way under test: its arguments and locals

qsVars == <<version, factor, chanMade, capacity, queue, closed, wg, wk, jobLog>>
rxVars == <<minVal, offset, maxVal, exp, chunkSize, output, localCounts,
            globalCount, running, passes>>
libVars == <<expt, err, call, ret, added>>
sortVars == <<alg, workers, input, arr, pc, qsVars, rxVars, part>>
vars == <<alg, workers, input, arr, pc, qsVars, rxVars, libVars, part>>

\* The nil pointer, nil func and nil error of the library's results.
Nil == [nil |-> TRUE]
NoError == "nil"

\* partition3Way is not called on its own (the engines call it from
\* quickSortPartition, where it is one step).
NoPartition == [pc |-> "none"]

\* No call has been made on the experiment library (the sorting program of
\* src/example makes none).
LibIdle ==
    /\ expt = Nil /\ err = NoError /\ ret = Nil
    /\ call = [op |-> "none"] /\ added = <<>>

\* ------------------------------------------------------------------- inputs
\* ParallelQuickSort only compares elements, so an input behaves as its rank
\* pattern does: the inputs are the arrays whose values are 0..k for some k.
IsPattern(a) == \A v \in Range(a) : v = 0 \/ (v - 1) \in Range(a)

Patterns(n) == {a \in [1..n -> 0..(n - 1)] : IsPattern(a)}

QuickInputs == UNION {Patterns(n) : n \in 0..MaxLen}

\* ParallelRadixSort reads the digits: values of one, two and three digits,
\* a negative one, and the two ends of the integer range.
RadixValues == {MinInt, -2, 0, 3, 258, MaxInt}

RadixInputs == UNION {[1..n -> RadixValues] : n \in 0..MaxLenRadix}

\* Worker counts: the valid ones, and 0 and -1.
WorkerCounts == (-1)..MaxWorkers

\* ------------------------------------------------- ParallelQuickSort: channel
\* Mutant of HasRoom: one send too many is accepted.
HasRoomOffByOne(q, cap) == Len(q) <= cap

\* A buffered channel accepts a send without blocking while it has a free slot
\* (the capacity-0 channel of workers = 0 never has one, and has no receiver).
HasRoom(q, cap) == Len(q) < cap

\* make(chan sortJob, workers*128), make(chan job, workers)
QueueCap(w, f) == w * f

Span(lo, hi) == <<lo, hi>>

Frame(lo, hi) == [lo |-> lo, hi |-> hi, pc |-> "enter", lt |-> 0, gt |-> 0]

Top(w) == wk[w].stack[Len(wk[w].stack)]

HasFrame(w) == w \in DOMAIN wk /\ wk[w].stack # <<>>

\* The stack of w with its top frame replaced by f, and with it removed.
WithTop(w, f) == [wk EXCEPT ![w].stack[Len(wk[w].stack)] = f]
Popped(w) == [wk EXCEPT ![w].stack = SubSeq(@, 1, Len(@) - 1)]
Pushed(w, f, g) == [wk EXCEPT ![w].stack = SubSeq(@, 1, Len(@) - 1) \o <<f, g>>]

\* History of one job: the goroutine that created it (0 is the caller), how
\* many times a job of this span was created, how it was handed over
\* ("created", then "queued" or "inline"), how many jobs the channel held
\* when it was handed over, how many times quickSortPartition
\* was entered for it and by whom, and whether it has returned.
NewJob(by) == [by |-> by, made |-> 1, how |-> "created", seen |-> -1, runs |-> 0,
               runner |-> -1, finished |-> FALSE]

Logged(log, s, by) ==
    IF s \in DOMAIN log THEN [log EXCEPT ![s].made = @ + 1]
    ELSE [t \in DOMAIN log \cup {s} |-> IF t = s THEN NewJob(by) ELSE log[t]]

\* Mutant of IsTrivial: only the empty array returns at once.
IsTrivialEmptyOnly(a) == Len(a) = 0

\* Lines 311 and 411 (194): `if len(arr) <= 1 { return }`
IsTrivial(a) == Len(a) <= 1

\* -------------------------------------------------- ParallelQuickSort: caller
\* Lines 310-318 (193-210): the length test, make(chan), spawnWorkers.
QSStartWith(cap) ==
    /\ alg = "QuickSort" /\ pc = "start"
    /\ IF IsTrivial(arr) THEN
            /\ pc' = "done"
            /\ UNCHANGED <<chanMade, capacity, wk>>
       ELSE IF cap < 0 THEN
            \* make(chan, n) with n < 0 panics
            /\ pc' = "panic"
            /\ UNCHANGED <<chanMade, capacity, wk>>
       ELSE
            /\ chanMade' = TRUE
            /\ capacity' = cap
            /\ wk' = [w \in 1..workers |-> [st |-> "idle", stack |-> <<>>]]
            /\ pc' = "add"
    /\ UNCHANGED <<libVars, part, alg, workers, input, arr, version, factor, queue, closed, wg,
                   jobLog, rxVars>>

QSStart == QSStartWith(QueueCap(workers, factor))

\* Line 320: wg.Add(1)
QSAdd ==
    /\ alg = "QuickSort" /\ pc = "add"
    /\ wg' = wg + 1
    /\ jobLog' = Logged(jobLog, Span(0, Len(arr) - 1), 0)
    /\ pc' = "send"
    /\ UNCHANGED <<libVars, part, alg, workers, input, arr, version, factor, chanMade, capacity,
                   queue, closed, wk, rxVars>>

\* Line 321: jobs <- sortJob{0, len(arr) - 1}, a blocking send
QSSend ==
    /\ alg = "QuickSort" /\ pc = "send"
    /\ HasRoom(queue, capacity)
    /\ queue' = Append(queue, Span(0, Len(arr) - 1))
    /\ jobLog' = [jobLog EXCEPT ![Span(0, Len(arr) - 1)].how = "queued",
                                 ![Span(0, Len(arr) - 1)].seen = Len(queue)]
    /\ pc' = "wait"
    /\ UNCHANGED <<libVars, part, alg, workers, input, arr, version, factor, chanMade, capacity,
                   closed, wg, wk, rxVars>>

\* Line 322: wg.Wait() returns when the counter is zero
WaitOver(counter) == counter = 0

QSWait ==
    /\ alg = "QuickSort" /\ pc = "wait"
    /\ WaitOver(wg)
    /\ pc' = "close"
    /\ UNCHANGED <<libVars, part, alg, workers, input, arr, qsVars, rxVars>>

\* Mutant of QSClose: the call returns without close(jobs).
QSReturnWithoutClose ==
    /\ alg = "QuickSort" /\ pc = "close"
    /\ pc' = "done"
    /\ UNCHANGED <<libVars, part, alg, workers, input, arr, version, factor, chanMade, capacity,
                   queue, closed, wg, wk, jobLog, rxVars>>

\* Line 324: close(jobs), and the return
QSClose ==
    /\ alg = "QuickSort" /\ pc = "close"
    /\ closed' = TRUE
    /\ pc' = "done"
    /\ UNCHANGED <<libVars, part, alg, workers, input, arr, version, factor, chanMade, capacity,
                   queue, wg, wk, jobLog, rxVars>>

\* ------------------------------------------------- ParallelQuickSort: workers
\* Mutant of WorkerDequeue: the job received stays in the channel.
WorkerDequeueKeeps(w) ==
    /\ alg = "QuickSort" /\ w \in DOMAIN wk
    /\ wk[w].st = "idle" /\ queue # <<>>
    /\ wk' = [wk EXCEPT ![w] = [st |-> "busy",
                                stack |-> <<Frame(Head(queue)[1], Head(queue)[2])>>]]
    /\ UNCHANGED <<libVars, part, alg, workers, input, arr, pc, version, factor, chanMade, capacity,
                   queue, closed, wg, jobLog, rxVars>>

\* Lines 330 (202): `for j := range jobs` receives the oldest buffered job.
WorkerDequeue(w) ==
    /\ alg = "QuickSort" /\ w \in DOMAIN wk
    /\ wk[w].st = "idle" /\ queue # <<>>
    /\ queue' = Tail(queue)
    /\ wk' = [wk EXCEPT ![w] = [st |-> "busy",
                                stack |-> <<Frame(Head(queue)[1], Head(queue)[2])>>]]
    /\ UNCHANGED <<libVars, part, alg, workers, input, arr, pc, version, factor, chanMade, capacity,
                   closed, wg, jobLog, rxVars>>

\* Lines 330 (202): the range loop ends when the channel is closed and drained.
WorkerExit(w) ==
    /\ alg = "QuickSort" /\ w \in DOMAIN wk
    /\ wk[w].st = "idle" /\ queue = <<>> /\ closed
    /\ wk' = [wk EXCEPT ![w].st = "exited"]
    /\ UNCHANGED <<libVars, part, alg, workers, input, arr, pc, version, factor, chanMade, capacity,
                   queue, closed, wg, jobLog, rxVars>>

\* Mutant of IsSmall: the test counts the elements, hi-lo+1 < sortThreshold.
IsSmallByCount(lo, hi) == hi - lo + 1 < sortThreshold

\* Whether quickSortPartition hands the range to the library sort.
IsSmall(lo, hi) == hi - lo < sortThreshold

\* Lines 338-349 (223-236): quickSortPartition up to its first submitJob:
\* the empty-range return, the library sort of a small range, or the partition.
QuickSortPartition(w) ==
    /\ alg = "QuickSort" /\ HasFrame(w) /\ Top(w).pc = "enter"
    /\ LET f == Top(w)
           s == Span(f.lo, f.hi)
           ran == [jobLog EXCEPT ![s].runs = @ + 1, ![s].runner = w]
       IN  IF f.lo >= f.hi THEN
                /\ wk' = Popped(w)
                /\ jobLog' = [ran EXCEPT ![s].finished = TRUE]
                /\ arr' = arr
           ELSE IF IsSmall(f.lo, f.hi) THEN
                /\ arr' = SortRange(arr, f.lo, f.hi)
                /\ wk' = Popped(w)
                /\ jobLog' = [ran EXCEPT ![s].finished = TRUE]
           ELSE LET r == Partition(version, arr, f.lo, f.hi)
                IN  /\ arr' = r.arr
                    /\ wk' = WithTop(w, [f EXCEPT !.pc = "subL", !.lt = r.lt, !.gt = r.gt])
                    /\ jobLog' = ran
    /\ UNCHANGED <<libVars, part, alg, workers, input, pc, version, factor, chanMade, capacity,
                   queue, closed, wg, rxVars>>

\* Mutant of SubSpan: both sub-ranges keep the pivot position.
SubSpanWithPivot(f) == IF f.pc \in {"subL", "selL", "doneL"} THEN <<f.lo, f.lt>>
                       ELSE <<f.gt, f.hi>>

\* The span a frame submits: [lo, lt-1] first, [gt+1, hi] second (lines 350-351).
SubSpan(f) == IF f.pc \in {"subL", "selL", "doneL"} THEN Span(f.lo, f.lt - 1)
              ELSE Span(f.gt + 1, f.hi)

\* The workers after the top frame of w is through with its current submitJob:
\* on to the second submitJob, or the return of quickSortPartition.
Advanced(w) ==
    IF Top(w).pc \in {"subL", "selL", "doneL"}
    THEN WithTop(w, [Top(w) EXCEPT !.pc = "subR"])
    ELSE Popped(w)

AdvancedLog(w) ==
    IF Top(w).pc \in {"subL", "selL", "doneL"} THEN jobLog
    ELSE [jobLog EXCEPT ![Span(Top(w).lo, Top(w).hi)].finished = TRUE]

\* Mutant of SubmitAdd: submitJob without its wg.Add(1).
SubmitNoAdd(w) ==
    /\ alg = "QuickSort" /\ HasFrame(w) /\ Top(w).pc \in {"subL", "subR"}
    /\ LET f == Top(w)
           s == SubSpan(f)
       IN  IF s[1] >= s[2] THEN
                /\ wk' = Advanced(w)
                /\ jobLog' = AdvancedLog(w)
           ELSE
                /\ jobLog' = Logged(jobLog, s, w)
                /\ wk' = WithTop(w, [f EXCEPT !.pc = IF f.pc = "subL" THEN "selL" ELSE "selR"])
    /\ UNCHANGED <<libVars, part, alg, workers, input, arr, pc, version, factor, chanMade, capacity,
                   queue, closed, wg, rxVars>>

\* Mutant of SubmitAdd: submitJob without its `if lo >= hi { return }`.
SubmitAddUnguarded(w) ==
    /\ alg = "QuickSort" /\ HasFrame(w) /\ Top(w).pc \in {"subL", "subR"}
    /\ LET f == Top(w)
           s == SubSpan(f)
       IN  /\ wg' = wg + 1
           /\ jobLog' = Logged(jobLog, s, w)
           /\ wk' = WithTop(w, [f EXCEPT !.pc = IF f.pc = "subL" THEN "selL" ELSE "selR"])
    /\ UNCHANGED <<libVars, part, alg, workers, input, arr, pc, version, factor, chanMade, capacity,
                   queue, closed, rxVars>>

\* Lines 354-359 (247-252): submitJob's empty-span return, or its wg.Add(1).
SubmitAdd(w) ==
    /\ alg = "QuickSort" /\ HasFrame(w) /\ Top(w).pc \in {"subL", "subR"}
    /\ LET f == Top(w)
           s == SubSpan(f)
       IN  IF s[1] >= s[2] THEN
                /\ wk' = Advanced(w)
                /\ jobLog' = AdvancedLog(w)
                /\ wg' = wg
           ELSE
                /\ wg' = wg + 1
                /\ jobLog' = Logged(jobLog, s, w)
                /\ wk' = WithTop(w, [f EXCEPT !.pc = IF f.pc = "subL" THEN "selL" ELSE "selR"])
    /\ UNCHANGED <<libVars, part, alg, workers, input, arr, pc, version, factor, chanMade, capacity,
                   queue, closed, rxVars>>

\* Mutant of SubmitSelect: a plain send `jobs <- sortJob{lo, hi}`, which waits
\* for a free slot.
SubmitSelectBlocking(w) ==
    /\ alg = "QuickSort" /\ HasFrame(w) /\ Top(w).pc \in {"selL", "selR"}
    /\ HasRoom(queue, capacity)
    /\ queue' = Append(queue, SubSpan(Top(w)))
    /\ wk' = Advanced(w)
    /\ jobLog' = [AdvancedLog(w) EXCEPT ![SubSpan(Top(w))].how = "queued",
                                        ![SubSpan(Top(w))].seen = Len(queue)]
    /\ UNCHANGED <<libVars, part, alg, workers, input, arr, pc, version, factor, chanMade, capacity,
                   closed, wg, rxVars>>

\* Mutant of SubmitSelect: the default branch only calls wg.Done(), the job is
\* not run.
SubmitSelectDrop(w) ==
    /\ alg = "QuickSort" /\ HasFrame(w) /\ Top(w).pc \in {"selL", "selR"}
    /\ LET f == Top(w)
           s == SubSpan(f)
       IN  IF HasRoom(queue, capacity) THEN
                /\ queue' = Append(queue, s)
                /\ wk' = Advanced(w)
                /\ jobLog' = [AdvancedLog(w) EXCEPT ![s].how = "queued", ![s].seen = Len(queue)]
                /\ wg' = wg
           ELSE
                /\ queue' = queue
                /\ wk' = Advanced(w)
                /\ jobLog' = [AdvancedLog(w) EXCEPT ![s].how = "inline", ![s].seen = Len(queue),
                                                    ![s].finished = TRUE]
                /\ wg' = wg - 1
    /\ UNCHANGED <<libVars, part, alg, workers, input, arr, pc, version, factor, chanMade, capacity,
                   closed, rxVars>>

\* Lines 360-364 (253-258): the select: the send when the channel has room,
\* otherwise the default branch, which calls quickSortPartition itself.
SubmitSelect(w) ==
    /\ alg = "QuickSort" /\ HasFrame(w) /\ Top(w).pc \in {"selL", "selR"}
    /\ LET f == Top(w)
           s == SubSpan(f)
       IN  IF HasRoom(queue, capacity) THEN
                /\ queue' = Append(queue, s)
                /\ wk' = Advanced(w)
                /\ jobLog' = [AdvancedLog(w) EXCEPT ![s].how = "queued", ![s].seen = Len(queue)]
           ELSE
                /\ queue' = queue
                /\ wk' = Pushed(w, [f EXCEPT !.pc = IF f.pc = "selL" THEN "doneL" ELSE "doneR"],
                                Frame(s[1], s[2]))
                /\ jobLog' = [jobLog EXCEPT ![s].how = "inline", ![s].seen = Len(queue)]
    /\ UNCHANGED <<libVars, part, alg, workers, input, arr, pc, version, factor, chanMade, capacity,
                   closed, wg, rxVars>>

\* Mutant of SubmitDone: the default branch without its wg.Done().
SubmitDoneKeepsCount(w) ==
    /\ alg = "QuickSort" /\ HasFrame(w) /\ Top(w).pc \in {"doneL", "doneR"}
    /\ wk' = Advanced(w)
    /\ jobLog' = AdvancedLog(w)
    /\ UNCHANGED <<libVars, part, alg, workers, input, arr, pc, version, factor, chanMade, capacity,
                   queue, closed, wg, rxVars>>

\* Line 365 (259): wg.Done() after the inline quickSortPartition has returned.
SubmitDone(w) ==
    /\ alg = "QuickSort" /\ HasFrame(w) /\ Top(w).pc \in {"doneL", "doneR"}
    /\ wg' = wg - 1
    /\ wk' = Advanced(w)
    /\ jobLog' = AdvancedLog(w)
    /\ UNCHANGED <<libVars, part, alg, workers, input, arr, pc, version, factor, chanMade, capacity,
                   queue, closed, rxVars>>

\* Mutant of WorkerDone: the worker loop without its wg.Done().
WorkerDoneKeepsCount(w) ==
    /\ alg = "QuickSort" /\ w \in DOMAIN wk
    /\ wk[w].st = "busy" /\ wk[w].stack = <<>>
    /\ wk' = [wk EXCEPT ![w].st = "idle"]
    /\ UNCHANGED <<libVars, part, alg, workers, input, arr, pc, version, factor, chanMade, capacity,
                   queue, closed, wg, jobLog, rxVars>>

\* Line 332 (204): wg.Done() after the dequeued job has returned.
WorkerDone(w) ==
    /\ alg = "QuickSort" /\ w \in DOMAIN wk
    /\ wk[w].st = "busy" /\ wk[w].stack = <<>>
    /\ wg' = wg - 1
    /\ wk' = [wk EXCEPT ![w].st = "idle"]
    /\ UNCHANGED <<libVars, part, alg, workers, input, arr, pc, version, factor, chanMade, capacity,
                   queue, closed, jobLog, rxVars>>

WorkerStep(w) ==
    \/ WorkerDequeue(w)
    \/ QuickSortPartition(w)
    \/ SubmitAdd(w)
    \/ SubmitSelect(w)
    \/ SubmitDone(w)
    \/ WorkerDone(w)
    \/ WorkerExit(w)

CallerStep == QSStart \/ QSAdd \/ QSSend \/ QSWait \/ QSClose

QuickInit ==
    /\ alg = "QuickSort"
    /\ version \in {"median", "threeway"}
    /\ factor \in QueueFactors
    /\ workers \in WorkerCounts
    /\ input \in QuickInputs
    /\ arr = input
    /\ pc = "start"
    /\ chanMade = FALSE /\ capacity = 0 /\ queue = <<>> /\ closed = FALSE
    /\ wg = 0 /\ wk = <<>> /\ jobLog = <<>>
    /\ minVal = 0 /\ offset = 0 /\ maxVal = 0 /\ exp = 0
    /\ chunkSize = 0 /\ output = <<>> /\ localCounts = <<>> /\ globalCount = <<>>
    /\ running = {} /\ passes = <<>>
    /\ part = NoPartition
    /\ LibIdle

QuickNext == CallerStep \/ \E w \in 1..MaxWorkers : WorkerStep(w)

QuickSpec == QuickInit /\ [][QuickNext]_vars

\* --------------------------------------------------- ParallelRadixSort: helpers
RECURSIVE MinOf(_, _, _)
MinOf(a, i, m) == IF i > Len(a) THEN m ELSE MinOf(a, i + 1, IF a[i] < m THEN a[i] ELSE m)

RECURSIVE MaxOf(_, _, _)
MaxOf(a, i, m) == IF i > Len(a) THEN m ELSE MaxOf(a, i + 1, IF a[i] > m THEN a[i] ELSE m)

\* Lines 480, 504: digit := (arr[i] / exp) % base
Digit(v, e, b) == GoMod(GoDiv(v, e), b)

\* Mutant of ChunkSize: the division rounds down, the tail of the array is in
\* no chunk.
ChunkSizeFloor(n, w) == GoDiv(n, w)

\* Line 463: chunkSize := (n + workers - 1) / workers
ChunkSize(n, w) == GoDiv(n + w - 1, w)

\* Lines 473-477: the chunk of worker w, as the index set start..end-1
ChunkStart(w, size) == w * size
\* Mutant of ChunkEnd: end is not clamped to n.
ChunkEndUnclamped(w, size, n) == ChunkStart(w, size) + size

ChunkEnd(w, size, n) == IF ChunkStart(w, size) + size > n THEN n ELSE ChunkStart(w, size) + size
Chunk(w, size, n) == ChunkStart(w, size)..(ChunkEnd(w, size, n) - 1)

\* Lines 472-482: the local histogram of a set of indices
Histogram(a, idx, e, b) ==
    [d \in 0..(b - 1) |-> Cardinality({i \in idx : Digit(At(a, i), e, b) = d})]

\* Lines 490-495: the element-wise sum of the local histograms
RECURSIVE SumOver(_, _, _)
SumOver(lc, w, d) == IF w < 0 THEN 0 ELSE lc[w][d] + SumOver(lc, w - 1, d)

MergeCounts(lc, nw, b) == [d \in 0..(b - 1) |-> SumOver(lc, nw - 1, d)]

\* The sum of c over a finite set of its indices.
RECURSIVE SumSet(_, _)
SumSet(c, S) ==
    IF S = {} THEN 0
    ELSE LET k == CHOOSE x \in S : TRUE IN c[k] + SumSet(c, S \ {k})

\* Mutant of PrefixSum: an exclusive prefix sum, c[0] + ... + c[i-1] in entry i.
PrefixSumExclusive(c, b) ==
    LET filled == {k \in 0..(b - 1) : c[k] # 0}
    IN  [d \in 0..(b - 1) |-> SumSet(c, {k \in filled : k < d})]

\* Lines 498-500: globalCount[i] += globalCount[i-1], for i = 1 .. base-1.
\* The loop runs upwards, so it leaves c[0] + ... + c[i] in entry i; the sum
\* is taken over the non-zero entries.
PrefixSum(c, b) ==
    LET filled == {k \in 0..(b - 1) : c[k] # 0}
    IN  [d \in 0..(b - 1) |-> SumSet(c, {k \in filled : k <= d})]

\* Mutant of Place: the cumulative counter is read but not decremented.
RECURSIVE PlaceNoDecrement(_, _, _, _, _, _)
PlaceNoDecrement(a, out, c, i, e, b) ==
    IF i < 0 THEN [out |-> out, count |-> c, ok |-> TRUE]
    ELSE LET d == Digit(At(a, i), e, b)
         IN  IF d \notin DOMAIN c \/ c[d] - 1 < 0 \/ c[d] - 1 >= Len(out)
             THEN [out |-> out, count |-> c, ok |-> FALSE]
             ELSE PlaceNoDecrement(a, Put(out, c[d] - 1, At(a, i)), c, i - 1, e, b)

\* Mutant of Place: the placement loop scans from the first index to the last.
RECURSIVE PlaceForward(_, _, _, _, _, _)
PlaceForward(a, out, c, i, e, b) ==
    IF i < 0 THEN [out |-> out, count |-> c, ok |-> TRUE]
    ELSE LET j == Len(a) - 1 - i
             d == Digit(At(a, j), e, b)
         IN  IF d \notin DOMAIN c \/ c[d] - 1 < 0 \/ c[d] - 1 >= Len(out)
             THEN [out |-> out, count |-> c, ok |-> FALSE]
             ELSE PlaceForward(a, Put(out, c[d] - 1, At(a, j)), [c EXCEPT ![d] = @ - 1],
                               i - 1, e, b)

\* Lines 503-507: the placement loop, from the last index to the first.  ok is
\* FALSE when an index leaves the output (a Go panic).
RECURSIVE Place(_, _, _, _, _, _)
Place(a, out, c, i, e, b) ==
    IF i < 0 THEN [out |-> out, count |-> c, ok |-> TRUE]
    ELSE LET d == Digit(At(a, i), e, b)
         IN  IF d \notin DOMAIN c \/ c[d] - 1 < 0 \/ c[d] - 1 >= Len(out)
             THEN [out |-> out, count |-> c, ok |-> FALSE]
             ELSE Place(a, Put(out, c[d] - 1, At(a, i)), [c EXCEPT ![d] = @ - 1], i - 1, e, b)

\* ---------------------------------------------------- ParallelRadixSort: caller
\* Lines 410-438: the length test, the minimum, the offset, the maximum.
RadixStart ==
    /\ alg = "RadixSort" /\ pc = "start"
    /\ IF IsTrivial(arr) THEN
            /\ pc' = "done"
            /\ UNCHANGED <<arr, minVal, offset, maxVal, exp>>
       ELSE LET mn == MinOf(arr, 1, arr[1])
                off == IF mn < 0 THEN Wrap(-mn) ELSE 0
                shifted == IF mn < 0 THEN [i \in DOMAIN arr |-> Wrap(arr[i] + off)] ELSE arr
            IN  /\ minVal' = mn
                /\ offset' = off
                /\ arr' = shifted
                /\ maxVal' = MaxOf(shifted, 1, shifted[1])
                /\ exp' = 1
                /\ pc' = "loop"
    /\ UNCHANGED <<libVars, part, alg, workers, input, qsVars, chunkSize, output, localCounts,
                   globalCount, running, passes>>

\* Mutant of RadixLoop: the loop test is maxVal/exp >= base, the pass for the
\* leading digit is not run.
RadixLoopStopsEarly ==
    /\ alg = "RadixSort" /\ pc = "loop"
    /\ IF exp = 0 THEN
            /\ pc' = "panic"
            /\ UNCHANGED <<chunkSize, output, localCounts, running, passes>>
       ELSE IF GoDiv(maxVal, exp) >= base THEN
            IF workers <= 0 THEN
                /\ pc' = "panic"
                /\ UNCHANGED <<chunkSize, output, localCounts, running, passes>>
            ELSE
                /\ output' = [i \in DOMAIN arr |-> 0]
                /\ chunkSize' = ChunkSize(Len(arr), workers)
                /\ localCounts' = [w \in 0..(workers - 1) |-> <<>>]
                /\ running' = 0..(workers - 1)
                /\ passes' = Append(passes, exp)
                /\ pc' = "count"
       ELSE
            /\ pc' = "restore"
            /\ UNCHANGED <<chunkSize, output, localCounts, running, passes>>
    /\ UNCHANGED <<libVars, part, alg, workers, input, arr, qsVars, minVal, offset, maxVal, exp,
                   globalCount>>

\* Line 442: the loop test maxVal/exp > 0; and, when it holds, lines 459-468
\* of parallelCountingSort: the buffers and the histogram goroutines.
RadixLoop ==
    /\ alg = "RadixSort" /\ pc = "loop"
    /\ IF exp = 0 THEN
            \* integer divide by zero
            /\ pc' = "panic"
            /\ UNCHANGED <<chunkSize, output, localCounts, running, passes>>
       ELSE IF GoDiv(maxVal, exp) > 0 THEN
            IF workers <= 0 THEN
                \* (n + workers - 1) / 0, or make([][]int, workers) with workers < 0
                /\ pc' = "panic"
                /\ UNCHANGED <<chunkSize, output, localCounts, running, passes>>
            ELSE
                /\ output' = [i \in DOMAIN arr |-> 0]
                /\ chunkSize' = ChunkSize(Len(arr), workers)
                /\ localCounts' = [w \in 0..(workers - 1) |-> <<>>]
                /\ running' = 0..(workers - 1)
                /\ passes' = Append(passes, exp)
                /\ pc' = "count"
       ELSE
            /\ pc' = "restore"
            /\ UNCHANGED <<chunkSize, output, localCounts, running, passes>>
    /\ UNCHANGED <<libVars, part, alg, workers, input, arr, qsVars, minVal, offset, maxVal, exp,
                   globalCount>>

\* Mutant of RadixCount: every goroutine stores its histogram in slot 0 of the
\* per-worker table.
RadixCountSharedSlot(w) ==
    /\ alg = "RadixSort" /\ pc = "count" /\ w \in running
    /\ LET idx == Chunk(w, chunkSize, Len(arr))
       IN  IF \E i \in idx : Digit(At(arr, i), exp, base) \notin 0..(base - 1) THEN
                /\ pc' = "panic"
                /\ UNCHANGED <<localCounts, running>>
           ELSE
                /\ localCounts' = [localCounts EXCEPT ![0] = Histogram(arr, idx, exp, base)]
                /\ running' = running \ {w}
                /\ pc' = pc
    /\ UNCHANGED <<libVars, part, alg, workers, input, arr, qsVars, minVal, offset, maxVal, exp,
                   chunkSize, output, globalCount, passes>>

\* Lines 469-485: one histogram goroutine, from its start to its wg.Done().
RadixCount(w) ==
    /\ alg = "RadixSort" /\ pc = "count" /\ w \in running
    /\ LET idx == Chunk(w, chunkSize, Len(arr))
       IN  IF \E i \in idx : Digit(At(arr, i), exp, base) \notin 0..(base - 1) THEN
                \* counts[digit] with digit < 0: index out of range
                /\ pc' = "panic"
                /\ UNCHANGED <<localCounts, running>>
           ELSE
                /\ localCounts' = [localCounts EXCEPT ![w] = Histogram(arr, idx, exp, base)]
                /\ running' = running \ {w}
                /\ pc' = pc
    /\ UNCHANGED <<libVars, part, alg, workers, input, arr, qsVars, minVal, offset, maxVal, exp,
                   chunkSize, output, globalCount, passes>>

\* Mutant of AllJoined: wg.Wait() returns while one goroutine is still running.
AllJoinedButOne(r) == Cardinality(r) <= 1

\* Line 487: wg.Wait() returns when every histogram goroutine is done.
AllJoined(r) == r = {}

RadixJoin ==
    /\ alg = "RadixSort" /\ pc = "count"
    /\ AllJoined(running)
    /\ pc' = "merge"
    /\ UNCHANGED <<libVars, part, alg, workers, input, arr, qsVars, rxVars>>

\* Lines 490-495
RadixMerge ==
    /\ alg = "RadixSort" /\ pc = "merge"
    /\ globalCount' = MergeCounts(localCounts, workers, base)
    /\ pc' = "prefix"
    /\ UNCHANGED <<libVars, part, alg, workers, input, arr, qsVars, minVal, offset, maxVal, exp,
                   chunkSize, output, localCounts, running, passes>>

\* Lines 498-500
RadixPrefix ==
    /\ alg = "RadixSort" /\ pc = "prefix"
    /\ globalCount' = PrefixSum(globalCount, base)
    /\ pc' = "place"
    /\ UNCHANGED <<libVars, part, alg, workers, input, arr, qsVars, minVal, offset, maxVal, exp,
                   chunkSize, output, localCounts, running, passes>>

\* Lines 503-507
RadixPlace ==
    /\ alg = "RadixSort" /\ pc = "place"
    /\ LET r == Place(arr, output, globalCount, Len(arr) - 1, exp, base)
       IN  /\ output' = r.out
           /\ globalCount' = r.count
           /\ pc' = IF r.ok THEN "copy" ELSE "panic"
    /\ UNCHANGED <<libVars, part, alg, workers, input, arr, qsVars, minVal, offset, maxVal, exp,
                   chunkSize, localCounts, running, passes>>

\* Mutant of RadixCopy: the loop's post statement multiplies exp by base twice.
RadixCopySkipsDigit ==
    /\ alg = "RadixSort" /\ pc = "copy"
    /\ arr' = output
    /\ exp' = Wrap(exp * base * base)
    /\ pc' = "loop"
    /\ UNCHANGED <<libVars, part, alg, workers, input, qsVars, minVal, offset, maxVal,
                   chunkSize, output, localCounts, globalCount, running, passes>>

\* Line 510, the return of parallelCountingSort, and line 442: exp *= base
RadixCopy ==
    /\ alg = "RadixSort" /\ pc = "copy"
    /\ arr' = output
    /\ exp' = Wrap(exp * base)
    /\ pc' = "loop"
    /\ UNCHANGED <<libVars, part, alg, workers, input, qsVars, minVal, offset, maxVal,
                   chunkSize, output, localCounts, globalCount, running, passes>>

\* Lines 446-452: the offset taken off again, and the return.
RadixRestore ==
    /\ alg = "RadixSort" /\ pc = "restore"
    /\ arr' = IF offset > 0 THEN [i \in DOMAIN arr |-> Wrap(arr[i] - offset)] ELSE arr
    /\ pc' = "done"
    /\ UNCHANGED <<libVars, part, alg, workers, input, qsVars, rxVars>>

RadixInit ==
    /\ alg = "RadixSort"
    /\ version = "none" /\ factor = 0
    /\ workers \in WorkerCounts
    /\ input \in RadixInputs
    /\ arr = input
    /\ pc = "start"
    /\ chanMade = FALSE /\ capacity = 0 /\ queue = <<>> /\ closed = FALSE
    /\ wg = 0 /\ wk = <<>> /\ jobLog = <<>>
    /\ minVal = 0 /\ offset = 0 /\ maxVal = 0 /\ exp = 0
    /\ chunkSize = 0 /\ output = <<>> /\ localCounts = <<>> /\ globalCount = <<>>
    /\ running = {} /\ passes = <<>>
    /\ part = NoPartition
    /\ LibIdle

RadixStep ==
    \/ RadixStart
    \/ RadixLoop
    \/ \E w \in 0..(MaxWorkers - 1) : RadixCount(w)
    \/ RadixJoin
    \/ RadixMerge
    \/ RadixPrefix
    \/ RadixPlace
    \/ RadixCopy
    \/ RadixRestore

RadixSpec == RadixInit /\ [][RadixStep]_vars

\* ------------------------------------------------- the experiment library
\* Package taguchi (src/experiment.go, src/types.go).  A float64 is modelled
\* by an integer, a Go struct type by the sequence of its fields, a struct
\* value by a function from field names to values, a map by a function.

\* The most control factors handed to a constructor.
MaxFactors == 4
\* The most AddResult calls made on one experiment.
MaxResults == 3

\* The standard orthogonal arrays by name (the tables L4, L8 and L9; L16 and
\* L18 are left out).  StandardArrays[n][i][j] is the level of column j in
\* row i.
StandardArrays ==
    [n \in {"L4", "L8", "L9"} |->
        CASE n = "L4" -> << <<1, 1, 1>>, <<1, 2, 2>>, <<2, 1, 2>>, <<2, 2, 1>> >>
          [] n = "L8" -> << <<1, 1, 1, 1, 1, 1, 1>>, <<1, 1, 1, 2, 2, 2, 2>>,
                            <<1, 2, 2, 1, 1, 2, 2>>, <<1, 2, 2, 2, 2, 1, 1>>,
                            <<2, 1, 2, 1, 2, 1, 2>>, <<2, 1, 2, 2, 1, 2, 1>>,
                            <<2, 2, 1, 1, 2, 2, 1>>, <<2, 2, 1, 2, 1, 1, 2>> >>
          [] n = "L9" -> << <<1, 1, 1, 1>>, <<1, 2, 2, 2>>, <<1, 3, 3, 3>>,
                            <<2, 1, 2, 3>>, <<2, 2, 3, 1>>, <<2, 3, 1, 2>>,
                            <<3, 1, 3, 2>>, <<3, 2, 1, 3>>, <<3, 3, 2, 1>> >>]

\* A struct type or value: kind, and the fields in declaration order.
StructOf(fields) == [kind |-> "struct", fields |-> fields]
PtrTo(fields) == [kind |-> "ptr", fields |-> fields]
IntType == [kind |-> "int", fields |-> <<>>]

\* A field of a factors struct value, with its []float64 value if it is one.
Field(name, exported, type, levels) ==
    [name |-> name, exported |-> exported, type |-> type, levels |-> levels]

\* types.go:24-27
ControlFactor(name, levels) == [Name |-> name, Levels |-> levels]

\* snr_test.go:285-298: the loop of factorsFrom over the fields i, i+1, ...
\* with the factors collected so far.
RECURSIVE FactorsLoop(_, _, _)
FactorsLoop(fields, i, factors) ==
    IF i > Len(fields) THEN
        IF factors = <<>> THEN [factors |-> <<>>, err |-> "no exported []float64 fields found"]
        ELSE [factors |-> factors, err |-> NoError]
    ELSE IF ~fields[i].exported THEN FactorsLoop(fields, i + 1, factors)
    ELSE IF fields[i].type # "[]float64" THEN FactorsLoop(fields, i + 1, factors)
    ELSE IF Len(fields[i].levels) < 2 THEN
        [factors |-> <<>>, err |-> "at least 2 levels required"]
    ELSE FactorsLoop(fields, i + 1,
                     Append(factors, ControlFactor(fields[i].name, fields[i].levels)))

\* snr_test.go:275-302
factorsFrom(v) ==
    IF v.kind # "struct" THEN [factors |-> <<>>, err |-> "factorsFrom requires a struct value"]
    ELSE FactorsLoop(v.fields, 1, <<>>)

\* The names of the exported float64 fields among fields i, i+1, ... of a
\* struct type, in order (snr_test.go:323-330).
RECURSIVE FloatFields(_, _)
FloatFields(fields, i) ==
    IF i > Len(fields) THEN <<>>
    ELSE IF ~fields[i].exported \/ fields[i].type # "float64" THEN FloatFields(fields, i + 1)
    ELSE <<fields[i].name>> \o FloatFields(fields, i + 1)

\* The zero value of a type: every field 0, the nil pointer, the integer 0.
Zero(P) ==
    CASE P.kind = "struct" -> [value |-> [n \in {P.fields[i].name : i \in DOMAIN P.fields} |-> 0],
                               panic |-> FALSE]
      [] P.kind = "ptr"    -> [value |-> Nil, panic |-> FALSE]
      [] OTHER             -> [value |-> 0, panic |-> FALSE]

\* snr_test.go:306-341: the converter buildControlAs[P]() returns, as the data
\* its closure holds: whether it is the closure returning zero, and the fields.
\* A pointer type is dereferenced (lines 309-311) before the kind is tested.
buildControlAs(P) ==
    IF P.kind \notin {"struct", "ptr"} THEN [zero |-> TRUE, fields |-> <<>>, P |-> P]
    ELSE [zero |-> FALSE, fields |-> FloatFields(P.fields, 1), P |-> P]

\* Mutant of SetFields: the loop returns after the first field it has set.
RECURSIVE SetFieldsFirstOnly(_, _, _, _)
SetFieldsFirstOnly(result, fields, i, control) ==
    IF i > Len(fields) THEN result
    ELSE IF fields[i] \in DOMAIN control
         THEN [result EXCEPT ![fields[i]] = control[fields[i]]]
         ELSE SetFieldsFirstOnly(result, fields, i + 1, control)

\* snr_test.go:335-339: the closure's loop over the fields i, i+1, ...
RECURSIVE SetFields(_, _, _, _)
SetFields(result, fields, i, control) ==
    IF i > Len(fields) THEN result
    ELSE IF fields[i] \in DOMAIN control
         THEN SetFields([result EXCEPT ![fields[i]] = control[fields[i]]],
                        fields, i + 1, control)
         ELSE SetFields(result, fields, i + 1, control)

\* snr_test.go:332-340: the closure applied to a trial.  With P a pointer type
\* `result` is a nil pointer and v.Field panics as soon as a key is found.
controlAs(conv, trial) ==
    IF conv.zero THEN Zero(conv.P)
    ELSE IF conv.P.kind = "ptr" THEN
        IF \E i \in DOMAIN conv.fields : conv.fields[i] \in DOMAIN trial.Control
        THEN [value |-> Nil, panic |-> TRUE]
        ELSE Zero(conv.P)
    ELSE [value |-> SetFields(Zero(conv.P).value, conv.fields, 1, trial.Control),
          panic |-> FALSE]

\* types.go:96-103, as the constructors fill it (Results starts nil).
Experiment(factors, noise, goal, oa, conv) ==
    [ControlFactors |-> factors, NoiseFactors |-> noise, Goal |-> goal,
     OrthogonalArray |-> oa, Results |-> <<>>, controlAs |-> conv]

\* Mutant of Failed: `return nil, nil`.
FailedSilently(e) == [e |-> Nil, err |-> NoError]

\* `return nil, fmt.Errorf(...)` and `return &Experiment{...}, nil`
Failed(e) == [e |-> Nil, err |-> e]
Built(e) == [e |-> e, err |-> NoError]

\* Mutant of TooMany: the column count itself is refused.
TooManyOffByOne(factors, oa) == Len(factors) >= Len(oa[1])

\* experiment.go:19, 40, 59, 76: len(controlFactors) > len(oa[0])
TooMany(factors, oa) == Len(factors) > Len(oa[1])

\* experiment.go:15-16, 55-56: oa, ok := StandardArrays[arrayName]
Defined(arrayName) == arrayName \in DOMAIN StandardArrays

\* experiment.go:10-29
NewExperiment(goal, factors, arrayName, noiseFactors, P) ==
    LET r == factorsFrom(factors)
    IN  IF r.err # NoError THEN Failed(r.err)
        ELSE IF ~Defined(arrayName) THEN Failed("orthogonal array not defined")
        ELSE IF TooMany(r.factors, StandardArrays[arrayName])
             THEN Failed("orthogonal array cannot accommodate factors")
        ELSE Built(Experiment(r.factors, noiseFactors, goal, StandardArrays[arrayName],
                              buildControlAs(P)))

\* experiment.go:32-50
NewExperimentUsingArray(goal, factors, orthogonalArray, noiseFactors, P) ==
    LET r == factorsFrom(factors)
    IN  IF r.err # NoError THEN Failed(r.err)
        ELSE IF Len(orthogonalArray) = 0 THEN Failed("orthogonal array must not be empty")
        ELSE IF TooMany(r.factors, orthogonalArray)
             THEN Failed("orthogonal array cannot accommodate factors")
        ELSE Built(Experiment(r.factors, noiseFactors, goal, orthogonalArray,
                              buildControlAs(P)))

\* experiment.go:54-68
NewExperimentFromFactors(goal, controlFactors, arrayName, noiseFactors) ==
    IF ~Defined(arrayName) THEN Failed("orthogonal array not defined")
    ELSE IF TooMany(controlFactors, StandardArrays[arrayName])
         THEN Failed("orthogonal array cannot accommodate factors")
    ELSE Built(Experiment(controlFactors, noiseFactors, goal, StandardArrays[arrayName], Nil))

\* experiment.go:72-85
NewExperimentFromFactorsUsingArray(goal, controlFactors, orthogonalArray, noiseFactors) ==
    IF Len(orthogonalArray) = 0 THEN Failed("orthogonal array must not be empty")
    ELSE IF TooMany(controlFactors, orthogonalArray)
         THEN Failed("orthogonal array cannot accommodate factors")
    ELSE Built(Experiment(controlFactors, noiseFactors, goal, orthogonalArray, Nil))

\* experiment.go:90-96; the zero value of struct{} for the FromFactors
\* constructors, whose P is struct{}.
Params(e, trial) ==
    IF e.controlAs = Nil THEN Zero(StructOf(<<>>))
    ELSE controlAs(e.controlAs, trial)

\* types.go:50-53
TrialResult(trial, observations) == [Trial |-> trial, Observations |-> observations]

\* Mutant of AddResult: the new result replaces the last one.
AddResultOverwrites(e, trial, observations) ==
    IF e.Results = <<>> THEN [e EXCEPT !.Results = <<TrialResult(trial, observations)>>]
    ELSE [e EXCEPT !.Results[Len(e.Results)] = TrialResult(trial, observations)]

\* experiment.go:99-104
AddResult(e, trial, observations) ==
    [e EXCEPT !.Results = Append(e.Results, TrialResult(trial, observations))]

\* A Go map read: the zero value for a missing key.
MapGet(m, k) == IF k \in DOMAIN m THEN m[k] ELSE 0

\* experiment.go:116-121: the loop over the control factors j, j+1, ... for
\* row i and result r.  factor.Levels[e.OrthogonalArray[i][j]-1] is indexed
\* before the comparison, with no test of the index ("panic": index out of
\* range, in the row or in Levels).
RECURSIVE MatchLoop(_, _, _, _)
MatchLoop(e, i, r, j) ==
    IF j > Len(e.ControlFactors) THEN "match"
    ELSE LET row == e.OrthogonalArray[i]
             cf == e.ControlFactors[j]
         IN  IF j > Len(row) THEN "panic"
             ELSE IF row[j] - 1 < 0 \/ row[j] - 1 >= Len(cf.Levels) THEN "panic"
             ELSE IF MapGet(r.Trial.Control, cf.Name) # cf.Levels[row[j]]
                  THEN "nomatch"
             ELSE MatchLoop(e, i, r, j + 1)

\* experiment.go:114-126: the loop over the results k, k+1, ... for row i,
\* with the number of matching results so far.
RECURSIVE ResultsLoop(_, _, _, _)
ResultsLoop(e, i, k, count) ==
    IF k > Len(e.Results) THEN [panic |-> FALSE, count |-> count]
    ELSE LET m == MatchLoop(e, i, e.Results[k], 1)
         IN  IF m = "panic" THEN [panic |-> TRUE, count |-> count]
             ELSE ResultsLoop(e, i, k + 1, IF m = "match" THEN count + 1 ELSE count)

\* experiment.go:111-133: the loop over the rows i, i+1, ..., with the match
\* counts of the rows so far.
RECURSIVE RowsLoop(_, _, _)
RowsLoop(e, i, counts) ==
    IF i > Len(e.OrthogonalArray) THEN [panic |-> FALSE, counts |-> counts]
    ELSE LET r == ResultsLoop(e, i, 1, 0)
         IN  IF r.panic THEN [panic |-> TRUE, counts |-> counts]
             ELSE RowsLoop(e, i + 1, Append(counts, r.count))

\* experiment.go:156-161: the first factor with the name of factor f.
Column(e, f) ==
    CHOOSE j \in 1..f :
        /\ e.ControlFactors[j].Name = e.ControlFactors[f].Name
        /\ \A k \in 1..(j - 1) : e.ControlFactors[k].Name # e.ControlFactors[f].Name

\* experiment.go:158: e.OrthogonalArray[i][j] is out of the row for some row.
ShortRow(e, f) == \E i \in DOMAIN e.OrthogonalArray : Column(e, f) > Len(e.OrthogonalArray[i])

\* experiment.go:151-166: levelCounts of factor f; a level index outside the
\* factor's levels is skipped (line 162).
LevelCounts(e, f) ==
    [l \in 1..Len(e.ControlFactors[f].Levels) |->
        Cardinality({i \in DOMAIN e.OrthogonalArray :
                        e.OrthogonalArray[i][Column(e, f)] = l})]

\* experiment.go:107-248, as far as it indexes: the SNR of each row (the
\* number of results matching it), the level counts of each factor, and
\* levels[0] at line 216.  The floating-point sums index nothing else and are
\* left out.  line is the line of the panic, 0 when Analyze returns.
Analyze(e) ==
    LET rows == RowsLoop(e, 1, <<>>)
        F == DOMAIN e.ControlFactors
        Panicked(l) == [panic |-> TRUE, line |-> l, matched |-> <<>>, levelCounts |-> <<>>]
    IN  IF rows.panic THEN Panicked(117)
        ELSE IF \E f \in F : ShortRow(e, f) THEN Panicked(158)
        ELSE IF \E f \in F : Len(e.ControlFactors[f].Levels) = 0 THEN Panicked(216)
        ELSE [panic |-> FALSE, line |-> 0, matched |-> rows.counts,
              levelCounts |-> [f \in F |-> LevelCounts(e, f)]]

\* The arguments the calls are made with.
Goals == {"SmallerTheBetter", "LargerTheBetter"}

NoiseLists == {<<[Name |-> "N", Levels |-> <<0>>]>>}

FactorNames == <<"A", "B", "C", "D", "E", "F", "G", "H">>

\* []ControlFactor of 0 to MaxFactors two-level factors.
FactorLists ==
    {[i \in 1..n |-> ControlFactor(FactorNames[i], <<1, 2>>)] : n \in 0..MaxFactors}

\* Factors struct values: 0 to MaxFactors []float64 fields; the mixed fields
\* and the one-level field of experiment_test.go:320-330; and a non-struct.
FactorStructs ==
    {StructOf([i \in 1..n |-> Field(FactorNames[i], TRUE, "[]float64", <<1, 2>>)]) :
        n \in 0..MaxFactors}
    \cup {StructOf(<<Field("A", TRUE, "[]float64", <<1, 2>>),
                     Field("NoSlice", TRUE, "float64", <<>>),
                     Field("IntSlice", TRUE, "[]int", <<>>),
                     Field("unexported", FALSE, "[]float64", <<1, 2>>),
                     Field("B", TRUE, "[]float64", <<10, 20>>)>>),
          StructOf(<<Field("A", TRUE, "[]float64", <<1>>)>>),
          IntType}

\* Params types: two float64 fields; mixed fields; struct{}; int; a pointer.
ParamTypes ==
    {StructOf(<<Field("A", TRUE, "float64", <<>>), Field("B", TRUE, "float64", <<>>)>>),
     StructOf(<<Field("A", TRUE, "float64", <<>>), Field("b", FALSE, "float64", <<>>),
                Field("C", TRUE, "int", <<>>)>>),
     StructOf(<<>>),
     IntType,
     PtrTo(<<Field("A", TRUE, "float64", <<>>), Field("B", TRUE, "float64", <<>>)>>)}

\* Array names: the defined ones and an undefined one (experiment_test.go:39).
ArrayNames == DOMAIN StandardArrays \cup {"L99"}

\* User-provided arrays: empty, two columns, and rows of unequal length.
UserArrays ==
    {<<>>,
     << <<1, 1>>, <<1, 2>>, <<2, 1>>, <<2, 2>> >>,
     << <<1>>, <<1, 2>> >>}

EmptyMap == [k \in {} |-> 0]

Controls ==
    {EmptyMap,
     [k \in {"A"} |-> 1],
     [k \in {"A", "B"} |-> IF k = "A" THEN 2 ELSE 20],
     [k \in {"B", "b", "C"} |-> IF k = "B" THEN 10 ELSE 5]}

Trial(id, control) == [ID |-> id, Control |-> control, Noise |-> EmptyMap]

Trials == {Trial(1, c) : c \in Controls}

AddedTrials == {Trial(1, [k \in {"A"} |-> 1]), Trial(2, EmptyMap)}

ObservationLists == {<<>>, <<1, 2>>}

\* The calls.  A constructor is called once; AddResult and Params are then
\* called on the experiment it returned.
CallNewExperiment ==
    /\ call.op = "none"
    /\ \E goal \in Goals, factors \in FactorStructs, arrayName \in ArrayNames,
          noiseFactors \in NoiseLists, P \in ParamTypes :
          LET r == NewExperiment(goal, factors, arrayName, noiseFactors, P)
          IN  /\ expt' = r.e /\ err' = r.err
              /\ call' = [op |-> "NewExperiment", goal |-> goal, factors |-> factors,
                          array |-> arrayName, noise |-> noiseFactors, P |-> P]
    /\ UNCHANGED <<ret, added, sortVars>>

CallNewExperimentUsingArray ==
    /\ call.op = "none"
    /\ \E goal \in Goals, factors \in FactorStructs, orthogonalArray \in UserArrays,
          noiseFactors \in NoiseLists, P \in ParamTypes :
          LET r == NewExperimentUsingArray(goal, factors, orthogonalArray, noiseFactors, P)
          IN  /\ expt' = r.e /\ err' = r.err
              /\ call' = [op |-> "NewExperimentUsingArray", goal |-> goal,
                          factors |-> factors, array |-> orthogonalArray,
                          noise |-> noiseFactors, P |-> P]
    /\ UNCHANGED <<ret, added, sortVars>>

CallNewExperimentFromFactors ==
    /\ call.op = "none"
    /\ \E goal \in Goals, controlFactors \in FactorLists, arrayName \in ArrayNames,
          noiseFactors \in NoiseLists :
          LET r == NewExperimentFromFactors(goal, controlFactors, arrayName, noiseFactors)
          IN  /\ expt' = r.e /\ err' = r.err
              /\ call' = [op |-> "NewExperimentFromFactors", goal |-> goal,
                          factors |-> controlFactors, array |-> arrayName,
                          noise |-> noiseFactors, P |-> StructOf(<<>>)]
    /\ UNCHANGED <<ret, added, sortVars>>

CallNewExperimentFromFactorsUsingArray ==
    /\ call.op = "none"
    /\ \E goal \in Goals, controlFactors \in FactorLists, orthogonalArray \in UserArrays,
          noiseFactors \in NoiseLists :
          LET r == NewExperimentFromFactorsUsingArray(goal, controlFactors,
                                                      orthogonalArray, noiseFactors)
          IN  /\ expt' = r.e /\ err' = r.err
              /\ call' = [op |-> "NewExperimentFromFactorsUsingArray", goal |-> goal,
                          factors |-> controlFactors, array |-> orthogonalArray,
                          noise |-> noiseFactors, P |-> StructOf(<<>>)]
    /\ UNCHANGED <<ret, added, sortVars>>

CallAddResult ==
    /\ expt # Nil /\ Len(added) < MaxResults
    /\ \E trial \in AddedTrials, observations \in ObservationLists :
          /\ expt' = AddResult(expt, trial, observations)
          /\ added' = Append(added, [trial |-> trial, observations |-> observations])
          /\ call' = [op |-> "AddResult", trial |-> trial, observations |-> observations]
    /\ UNCHANGED <<err, ret, sortVars>>

CallParams ==
    /\ expt # Nil
    /\ \E trial \in Trials :
          /\ ret' = Params(expt, trial)
          /\ call' = [op |-> "Params", trial |-> trial]
    /\ UNCHANGED <<expt, err, added, sortVars>>

CallAnalyze ==
    /\ expt # Nil
    /\ ret' = Analyze(expt)
    /\ call' = [op |-> "Analyze"]
    /\ UNCHANGED <<expt, err, added, sortVars>>

\* No sort is running while the library is used.
SortIdle ==
    /\ alg = "none" /\ version = "none" /\ factor = 0 /\ workers = 0
    /\ input = <<>> /\ arr = <<>> /\ pc = "idle"
    /\ chanMade = FALSE /\ capacity = 0 /\ queue = <<>> /\ closed = FALSE
    /\ wg = 0 /\ wk = <<>> /\ jobLog = <<>>
    /\ minVal = 0 /\ offset = 0 /\ maxVal = 0 /\ exp = 0
    /\ chunkSize = 0 /\ output = <<>> /\ localCounts = <<>> /\ globalCount = <<>>
    /\ running = {} /\ passes = <<>>
    /\ part = NoPartition

LibInit == SortIdle /\ LibIdle

LibNext ==
    \/ CallNewExperiment
    \/ CallNewExperimentUsingArray
    \/ CallNewExperimentFromFactors
    \/ CallNewExperimentFromFactorsUsingArray
    \/ CallAddResult
    \/ CallParams
    \/ CallAnalyze

SpecLib == LibInit /\ [][LibNext]_vars

\* ------------------------------------------------------------ the whole model
\* main (lines 161-165) calls one engine or the other on a fresh copy.
Init == QuickInit \/ RadixInit

Next == QuickNext \/ RadixStep

Spec == Init /\ [][Next]_vars

\* ParallelQuickSort with a channel of any capacity from 1 to MaxCap, whatever
\* the worker count (spec.md, scenario 5: "an artificially tiny queue capacity").
QSStartCap == \E c \in 1..MaxCap : QSStartWith(c)

CapInit ==
    /\ alg = "QuickSort"
    /\ version \in {"median", "threeway"}
    /\ factor = 0
    /\ workers \in 1..MaxWorkers
    /\ input \in QuickInputs
    /\ arr = input
    /\ pc = "start"
    /\ chanMade = FALSE /\ capacity = 0 /\ queue = <<>> /\ closed = FALSE
    /\ wg = 0 /\ wk = <<>> /\ jobLog = <<>>
    /\ minVal = 0 /\ offset = 0 /\ maxVal = 0 /\ exp = 0
    /\ chunkSize = 0 /\ output = <<>> /\ localCounts = <<>> /\ globalCount = <<>>
    /\ running = {} /\ passes = <<>>
    /\ part = NoPartition
    /\ LibIdle

CapNext ==
    \/ QSStartCap
    \/ QSAdd
    \/ QSSend
    \/ QSWait
    \/ QSClose
    \/ \E w \in 1..MaxWorkers : WorkerStep(w)

SpecCap == CapInit /\ [][CapNext]_vars

\* ParallelQuickSort on a nearly sorted array of MaxLenFallback distinct values
\* (each value at most one place from its sorted position), with a channel of
\* any capacity from 1 to MaxCap: long enough for a range that is run inline,
\* because the channel was full, to be partitioned and to submit sub-ranges.
NearlySorted(n) ==
    {a \in [1..n -> 0..(n - 1)] :
        /\ Range(a) = 0..(n - 1)
        /\ \A i \in 1..n : a[i] \in {i - 2, i - 1, i}}

FallbackInit ==
    /\ alg = "QuickSort"
    /\ version \in {"median", "threeway"}
    /\ factor = 0
    /\ workers \in 1..MaxWorkers
    /\ input \in NearlySorted(MaxLenFallback)
    /\ arr = input
    /\ pc = "start"
    /\ chanMade = FALSE /\ capacity = 0 /\ queue = <<>> /\ closed = FALSE
    /\ wg = 0 /\ wk = <<>> /\ jobLog = <<>>
    /\ minVal = 0 /\ offset = 0 /\ maxVal = 0 /\ exp = 0
    /\ chunkSize = 0 /\ output = <<>> /\ localCounts = <<>> /\ globalCount = <<>>
    /\ running = {} /\ passes = <<>>
    /\ part = NoPartition
    /\ LibIdle

SpecFallback == FallbackInit /\ [][CapNext]_vars

\* ---------------------------------------------- quickSortPartition on any span
\* A worker has received a job of any span, lo >= hi included (the engine
\* itself creates jobs with lo < hi only), and runs quickSortPartition for
\* it; the caller is in wg.Wait().
AnySpans(n) == {s \in (0..(n - 1)) \X ((-1)..(n - 1)) : TRUE}

SpanInit ==
    /\ alg = "QuickSort"
    /\ version \in {"median", "threeway"}
    /\ factor \in QueueFactors
    /\ workers \in 1..MaxWorkers
    /\ input \in QuickInputs /\ Len(input) >= 1
    /\ arr = input
    /\ pc = "wait"
    /\ chanMade = TRUE /\ capacity = QueueCap(workers, factor)
    /\ queue = <<>> /\ closed = FALSE
    /\ wg = 1
    /\ \E s \in AnySpans(Len(input)) :
            /\ wk = [w \in 1..workers |->
                        IF w = 1 THEN [st |-> "busy", stack |-> <<Frame(s[1], s[2])>>]
                        ELSE [st |-> "idle", stack |-> <<>>]]
            /\ jobLog = [t \in {s} |-> [NewJob(0) EXCEPT !.how = "queued", !.seen = 0]]
    /\ minVal = 0 /\ offset = 0 /\ maxVal = 0 /\ exp = 0
    /\ chunkSize = 0 /\ output = <<>> /\ localCounts = <<>> /\ globalCount = <<>>
    /\ running = {} /\ passes = <<>>
    /\ part = NoPartition
    /\ LibIdle

SpanNext == QSWait \/ QSClose \/ \E w \in 1..MaxWorkers : WorkerStep(w)

SpecSpan == SpanInit /\ [][SpanNext]_vars

\* ------------------------------------------------- partition3Way, step by step
\* partition3Way (lines 371-400) called on any range lo < hi of any array of
\* up to MaxLen elements, and then, as the jobs of its sub-ranges do, on
\* [lo, lt-1] or [gt+1, hi].  `input` is the array as it was at the call.

\* Mutant of Mid: the first index of the range.
MidFirst(lo, hi) == lo

\* Line 372: mid := lo + (hi-lo)/2
Mid(lo, hi) == lo + GoDiv(hi - lo, 2)

PartCall(lo, hi, depth) ==
    [pc |-> "call", lo |-> lo, hi |-> hi, mid |-> 0, pivot |-> 0,
     lt |-> 0, i |-> 0, gt |-> 0, depth |-> depth]

\* Mutant of P3Median: the pivot is read without the three compare-and-swap
\* steps.
P3NoMedian ==
    /\ alg = "partition3Way" /\ part.pc = "call"
    /\ arr' = arr
    /\ part' = [part EXCEPT !.pc = "loop", !.mid = Mid(part.lo, part.hi),
                            !.pivot = At(arr', Mid(part.lo, part.hi)),
                            !.lt = part.lo, !.i = part.lo, !.gt = part.hi]
    /\ UNCHANGED <<libVars, alg, workers, input, pc, qsVars, rxVars>>

\* Lines 372-386: mid, the three compare-and-swap steps, pivot := arr[mid],
\* lt, i, gt := lo, lo, hi.
P3Median ==
    /\ alg = "partition3Way" /\ part.pc = "call"
    /\ arr' = MedianOfThree(arr, part.lo, part.hi)
    /\ part' = [part EXCEPT !.pc = "loop", !.mid = Mid(part.lo, part.hi),
                            !.pivot = At(arr', Mid(part.lo, part.hi)),
                            !.lt = part.lo, !.i = part.lo, !.gt = part.hi]
    /\ UNCHANGED <<libVars, alg, workers, input, pc, qsVars, rxVars>>

\* Mutant of P3Iterate: an element equal to the pivot is moved to the `<`
\* zone (the test is arr[i] <= pivot).
P3IterateTwoWay ==
    /\ alg = "partition3Way" /\ part.pc = "loop" /\ part.i <= part.gt
    /\ IF At(arr, part.i) <= part.pivot THEN
            /\ arr' = Swap(arr, part.lt, part.i)
            /\ part' = [part EXCEPT !.lt = @ + 1, !.i = @ + 1]
       ELSE
            /\ arr' = Swap(arr, part.i, part.gt)
            /\ part' = [part EXCEPT !.gt = @ - 1]
    /\ UNCHANGED <<libVars, alg, workers, input, pc, qsVars, rxVars>>

\* Mutant of P3Iterate: i is advanced after the swap with arr[gt] as well.
P3IterateSkips ==
    /\ alg = "partition3Way" /\ part.pc = "loop" /\ part.i <= part.gt
    /\ IF At(arr, part.i) < part.pivot THEN
            /\ arr' = Swap(arr, part.lt, part.i)
            /\ part' = [part EXCEPT !.lt = @ + 1, !.i = @ + 1]
       ELSE IF At(arr, part.i) > part.pivot THEN
            /\ arr' = Swap(arr, part.i, part.gt)
            /\ part' = [part EXCEPT !.gt = @ - 1, !.i = @ + 1]
       ELSE
            /\ arr' = arr
            /\ part' = [part EXCEPT !.i = @ + 1]
    /\ UNCHANGED <<libVars, alg, workers, input, pc, qsVars, rxVars>>

\* Lines 387-398: one iteration of `for i <= gt`.
P3Iterate ==
    /\ alg = "partition3Way" /\ part.pc = "loop" /\ part.i <= part.gt
    /\ IF At(arr, part.i) < part.pivot THEN
            /\ arr' = Swap(arr, part.lt, part.i)
            /\ part' = [part EXCEPT !.lt = @ + 1, !.i = @ + 1]
       ELSE IF At(arr, part.i) > part.pivot THEN
            /\ arr' = Swap(arr, part.i, part.gt)
            /\ part' = [part EXCEPT !.gt = @ - 1]
       ELSE
            /\ arr' = arr
            /\ part' = [part EXCEPT !.i = @ + 1]
    /\ UNCHANGED <<libVars, alg, workers, input, pc, qsVars, rxVars>>

\* Lines 387, 399: the loop ends, return lt, gt.
P3Return ==
    /\ alg = "partition3Way" /\ part.pc = "loop" /\ part.i > part.gt
    /\ part' = [part EXCEPT !.pc = "returned"]
    /\ UNCHANGED <<libVars, alg, workers, input, arr, pc, qsVars, rxVars>>

\* Lines 350-351, then 338-349 in the job of the sub-range: partition3Way is
\* called on [lo, lt-1] or on [gt+1, hi], when that range has lo < hi.
P3Descend ==
    /\ alg = "partition3Way" /\ part.pc = "returned"
    /\ \E s \in {Span(part.lo, part.lt - 1), Span(part.gt + 1, part.hi)} :
            /\ s[1] < s[2]
            /\ part' = PartCall(s[1], s[2], part.depth + 1)
    /\ input' = arr
    /\ UNCHANGED <<libVars, alg, workers, arr, pc, qsVars, rxVars>>

PartInit ==
    /\ alg = "partition3Way" /\ version = "threeway" /\ factor = 0 /\ workers = 0
    /\ input \in QuickInputs /\ arr = input /\ pc = "idle"
    /\ \E lo \in 0..(Len(input) - 1) : \E hi \in 0..(Len(input) - 1) :
            lo < hi /\ part = PartCall(lo, hi, 0)
    /\ chanMade = FALSE /\ capacity = 0 /\ queue = <<>> /\ closed = FALSE
    /\ wg = 0 /\ wk = <<>> /\ jobLog = <<>>
    /\ minVal = 0 /\ offset = 0 /\ maxVal = 0 /\ exp = 0
    /\ chunkSize = 0 /\ output = <<>> /\ localCounts = <<>> /\ globalCount = <<>>
    /\ running = {} /\ passes = <<>>
    /\ LibIdle

PartNext == P3Median \/ P3Iterate \/ P3Return \/ P3Descend

SpecPart == PartInit /\ [][PartNext]_vars

\* ------------------------------------------- ParallelRadixSort: many workers
\* ParallelRadixSort called with up to MaxChunkWorkers workers, more than the
\* array has elements, on arrays of non-negative values of one and two digits.
ChunkValues == {0, 3, 258}

ChunkInputs == UNION {[1..n -> ChunkValues] : n \in 2..MaxLenRadix}

ChunkInit ==
    /\ alg = "RadixSort"
    /\ version = "none" /\ factor = 0
    /\ workers \in 1..MaxChunkWorkers
    /\ input \in ChunkInputs
    /\ arr = input
    /\ pc = "start"
    /\ chanMade = FALSE /\ capacity = 0 /\ queue = <<>> /\ closed = FALSE
    /\ wg = 0 /\ wk = <<>> /\ jobLog = <<>>
    /\ minVal = 0 /\ offset = 0 /\ maxVal = 0 /\ exp = 0
    /\ chunkSize = 0 /\ output = <<>> /\ localCounts = <<>> /\ globalCount = <<>>
    /\ running = {} /\ passes = <<>>
    /\ part = NoPartition
    /\ LibIdle

ChunkNext ==
    \/ RadixStart
    \/ RadixLoop
    \/ \E w \in 0..(MaxChunkWorkers - 1) : RadixCount(w)
    \/ RadixJoin
    \/ RadixMerge
    \/ RadixPrefix
    \/ RadixPlace
    \/ RadixCopy
    \/ RadixRestore

SpecChunk == ChunkInit /\ [][ChunkNext]_vars

\* ==================================================================== claims
Quick == alg = "QuickSort"
Radix == alg = "RadixSort"
Returned == pc = "done"

SortedPermutation == IsSorted(arr) /\ SameMultiset(arr, input)

SomeJob(how) == \E s \in DOMAIN jobLog : jobLog[s].how = how

\* C1: for every input and every worker count >= 1, under every interleaving,
\* when ParallelQuickSort has returned the array is in non-decreasing order and
\* holds the multiset of values it held at the call.
C1_QuickSortSorts ==
    (Quick /\ workers >= 1 /\ Returned) => SortedPermutation

\* A call on five elements that were not in order has returned, with jobs run
\* by workers and a sub-range partitioned.
C1_Witness ==
    /\ Quick /\ workers = MaxWorkers /\ Returned
    /\ Len(input) = 5 /\ ~IsSorted(input)
    /\ Cardinality(DOMAIN jobLog) >= 3

\* max - min of the array fits the integer type.
RangeRepresentable(a) ==
    a = <<>> \/ MaxOf(a, 1, a[1]) - MinOf(a, 1, a[1]) <= MaxInt

\* C2: for every input (negative values included) whose range max - min is
\* representable and every worker count >= 1, when ParallelRadixSort has
\* returned the array is in non-decreasing order and holds the multiset of
\* values it held at the call.
C2_RadixSortSorts ==
    (Radix /\ workers >= 1 /\ RangeRepresentable(input) /\ Returned) =>
        SortedPermutation

\* Where a goroutine of ParallelQuickSort waits: the caller in its send (no
\* free slot) or in wg.Wait() (counter not zero); a worker in its receive (the
\* channel empty and open) or, if submitJob could wait, in its select.  A
\* worker that has left its loop runs no more.
CallerBlocked ==
    \/ pc = "send" /\ ~HasRoom(queue, capacity)
    \/ pc = "wait" /\ ~WaitOver(wg)

WorkerBlocked(w) ==
    \/ wk[w].st = "exited"
    \/ wk[w].st = "idle" /\ queue = <<>> /\ ~closed
    \/ wk[w].st = "busy" /\ wk[w].stack # <<>> /\ Top(w).pc \in {"selL", "selR"}
          /\ ~ENABLED SubmitSelect(w)

\* The call has not returned and no goroutine can run.
Stuck == chanMade /\ ~Returned /\ CallerBlocked /\ \A w \in DOMAIN wk : WorkerBlocked(w)

\* A bound on the steps a call has left: each step of a goroutine lowers it.
SpanSize(s) == s[2] - s[1] + 1
JobCost(n) == 10 * n
QueuedCost(s) == JobCost(SpanSize(s)) + 2
SubmitCost(s) == IF s[1] >= s[2] THEN 1 ELSE JobCost(SpanSize(s)) + 4

FrameRank(f) ==
    LET l == SubmitCost(Span(f.lo, f.lt - 1))
        r == SubmitCost(Span(f.gt + 1, f.hi))
    IN  CASE f.pc = "enter" -> JobCost(SpanSize(Span(f.lo, f.hi)))
          [] f.pc = "subL"  -> l + r
          [] f.pc = "selL"  -> l - 1 + r
          [] f.pc = "doneL" -> 1 + r
          [] f.pc = "subR"  -> r
          [] f.pc = "selR"  -> r - 1
          [] f.pc = "doneR" -> 1

RECURSIVE StackRank(_)
StackRank(st) == IF st = <<>> THEN 0 ELSE FrameRank(Head(st)) + StackRank(Tail(st))

RECURSIVE QueueRank(_)
QueueRank(q) == IF q = <<>> THEN 0 ELSE QueuedCost(Head(q)) + QueueRank(Tail(q))

RECURSIVE WorkersRank(_)
WorkersRank(w) ==
    IF w = 0 THEN 0
    ELSE WorkersRank(w - 1) + StackRank(wk[w].stack)
         + (CASE wk[w].st = "busy" -> 2 [] wk[w].st = "idle" -> 1 [] OTHER -> 0)

CallerRank ==
    CASE pc = "start" -> JobCost(Len(arr)) + 7 + (IF workers > 0 THEN workers ELSE 0)
      [] pc = "add"   -> JobCost(Len(arr)) + 6
      [] pc = "send"  -> JobCost(Len(arr)) + 5
      [] pc = "wait"  -> 2
      [] pc = "close" -> 1
      [] OTHER        -> 0

Rank == CallerRank + QueueRank(queue) + WorkersRank(Len(wk))

C3_NotStuck == (Quick /\ workers >= 1) => ~Stuck

C3_Progress == (Quick /\ workers >= 1) => (Rank' < Rank /\ Rank' >= 0)

\* C3: for every worker count >= 1 and every input, ParallelQuickSort never
\* reaches a state where it has not returned and the caller and all workers
\* wait (no submitter waits for a free slot), and every step lowers a bound
\* on the steps left: so under fair scheduling the call returns.
C3_QuickSortReturns == []C3_NotStuck /\ [][C3_Progress]_vars

\* A call has returned although a submitter found the channel full.
C3_Witness ==
    /\ Quick /\ workers >= 1 /\ Returned
    /\ SomeJob("inline")

AllJobsFinished == \A s \in DOMAIN jobLog : jobLog[s].finished /\ jobLog[s].runs >= 1

\* C4: ParallelQuickSort is past its wg.Wait() (about to close the channel, or
\* returned) only in states where the counter is zero, the channel is empty,
\* no worker holds a job and every job created has run to its end.
C4_WaitEndsWhenDrained ==
    (Quick /\ chanMade /\ pc \in {"close", "done"}) =>
        /\ wg = 0
        /\ queue = <<>>
        /\ \A w \in DOMAIN wk : wk[w].st # "busy"
        /\ AllJobsFinished

\* The wait has ended, the channel is not closed yet, and several jobs ran.
C4_Witness ==
    /\ Quick /\ pc = "close" /\ ~closed
    /\ Cardinality(DOMAIN jobLog) >= 3
    /\ SomeJob("inline")

\* The jobs created and not yet returned from.
LiveJobs == {s \in DOMAIN jobLog : ~jobLog[s].finished}

Disjoint(s, t) == s[2] < t[1] \/ t[2] < s[1]

\* s lies inside t.
Inside(s, t) == t[1] <= s[1] /\ s[2] <= t[2]

\* The job has done its step on the array (its partition): it only submits.
Partitioned(s) == jobLog[s].runs >= 1

\* C5, as stated: at every instant any two live jobs (created and not yet
\* completed: queued, running on a worker or running inline) name spans that
\* do not overlap.
C5_LiveJobsDisjoint ==
    Quick => \A s, t \in LiveJobs : s # t => Disjoint(s, t)

\* C5, amended: any two live jobs name disjoint spans, unless one span lies
\* inside the other and the enclosing job has already partitioned its range
\* (it is submitting its sub-ranges and no longer touches the array).  So the
\* live jobs that have not yet run their partition or sort are disjoint.
C5_LiveJobsDisjointOrNested ==
    Quick => \A s, t \in LiveJobs : s # t =>
        \/ Disjoint(s, t)
        \/ (Inside(s, t) /\ Partitioned(t))
        \/ (Inside(t, s) /\ Partitioned(s))

\* Three live jobs: a parent that has partitioned and its two sub-ranges.
C5_Witness ==
    /\ Quick
    /\ \E s, t, u \in LiveJobs :
          /\ Disjoint(s, t) /\ ~Partitioned(s) /\ ~Partitioned(t)
          /\ Inside(s, u) /\ Inside(t, u) /\ s # u /\ t # u

\* C6: submitJob never waits for a free slot: a goroutine at the select can
\* always take its step; the job is sent when the channel has a free slot and
\* is otherwise run by the submitting goroutine itself; and every job is
\* created once and run at most once, exactly once when the call has returned.
C6_SubmitNeverBlocks ==
    Quick =>
        /\ \A w \in DOMAIN wk :
              (wk[w].stack # <<>> /\ Top(w).pc \in {"selL", "selR"}) => ENABLED SubmitSelect(w)
        /\ \A s \in DOMAIN jobLog :
              /\ jobLog[s].made = 1
              /\ jobLog[s].runs <= 1
              /\ jobLog[s].how = "queued" => jobLog[s].seen < capacity
              /\ jobLog[s].how = "inline" =>
                    /\ jobLog[s].seen = capacity
                    /\ jobLog[s].runner \in {-1, jobLog[s].by}
              /\ Returned => jobLog[s].runs = 1

\* A call has returned after one job was run inline by its submitter and
\* another was sent through the channel by a worker.
C6_Witness ==
    /\ Quick /\ Returned
    /\ \E s, t \in DOMAIN jobLog :
          /\ jobLog[s].how = "inline" /\ jobLog[s].runner = jobLog[s].by
          /\ jobLog[t].how = "queued" /\ jobLog[t].by >= 1

C7_Bounded == Quick => Len(queue) <= capacity

C7_Fixed == chanMade => (chanMade' /\ capacity' = capacity)

\* C7: in every reachable state of a ParallelQuickSort call the channel holds
\* at most `capacity` jobs; the capacity is workers times the version's factor
\* once the channel is made, and no step changes it afterwards.
C7_QueueWithinCapacity ==
    /\ [](C7_Bounded /\ (chanMade => capacity = workers * factor))
    /\ [][C7_Fixed]_vars

\* The channel is full.
C7_Witness ==
    /\ Quick /\ chanMade /\ workers >= 1
    /\ Len(queue) = capacity

\* The passes of ParallelRadixSort run by the caller alone, on whole-array
\* histograms: what the call with one worker computes.
CountingPass(a, e) ==
    Place(a, [i \in DOMAIN a |-> 0],
          PrefixSum(Histogram(a, 0..(Len(a) - 1), e, base), base),
          Len(a) - 1, e, base).out

RECURSIVE PassesFrom(_, _, _)
PassesFrom(a, mx, e) ==
    IF e = 0 \/ GoDiv(mx, e) <= 0 THEN a
    ELSE PassesFrom(CountingPass(a, e), mx, Wrap(e * base))

OneWorkerRadix(a) ==
    IF Len(a) <= 1 THEN a
    ELSE LET mn == MinOf(a, 1, a[1])
             off == IF mn < 0 THEN Wrap(-mn) ELSE 0
             shifted == IF mn < 0 THEN [i \in DOMAIN a |-> Wrap(a[i] + off)] ELSE a
             done == PassesFrom(shifted, MaxOf(shifted, 1, shifted[1]), 1)
         IN  IF off > 0 THEN [i \in DOMAIN done |-> Wrap(done[i] - off)] ELSE done

\* C8: for each engine and every input, the array a call returns with is the
\* same for every worker count >= 1 and every interleaving: it is the sorted
\* input for ParallelQuickSort and the result of the one-worker call for
\* ParallelRadixSort, neither of which depends on the workers or the schedule.
C8_ResultIndependentOfWorkers ==
    (workers >= 1 /\ Returned) =>
        arr = (IF Quick THEN SortInts(input) ELSE OneWorkerRadix(input))

\* A radix call with several workers has returned after two passes over an
\* array whose chunks hold different digits.
C8_Witness ==
    /\ Radix /\ workers = MaxWorkers /\ Returned
    /\ Len(passes) = 2 /\ Len(input) = 3 /\ input # arr

\* C9: for every channel capacity >= 1, capacity 1 with one worker included,
\* ParallelQuickSort never stops before it has returned, every step lowers the
\* bound on the steps left, and the call returns with the sorted permutation
\* of its input.
C9_AnyCapacitySorts ==
    /\ [](~Stuck /\ (Returned => arr = SortInts(input)))
    /\ [][Rank' < Rank]_vars

\* The three-way version has returned with one worker and one slot, after a
\* sub-range was run inline.
C9_Witness ==
    /\ Returned /\ version = "threeway" /\ workers = 1 /\ capacity = 1
    /\ SomeJob("inline") /\ ~IsSorted(input)

\* C10: for an array of length 0 or 1 and a worker count >= 1, both engines
\* return without a panic and leave the array as it was, and no channel, no
\* worker goroutine, no job and no radix pass is ever created.
C10_TrivialArrayUntouched ==
    (Len(input) <= 1 /\ workers >= 1) =>
        /\ pc \in {"start", "done"}
        /\ arr = input
        /\ ~chanMade /\ wk = <<>> /\ queue = <<>> /\ wg = 0 /\ jobLog = <<>>
        /\ passes = <<>> /\ running = {} /\ localCounts = <<>> /\ output = <<>>

\* A call on a one-element array has returned.
C10_Witness ==
    /\ Len(input) = 1 /\ workers >= 1 /\ Returned

\* C11: sorting is idempotent for both engines: a call on an array already in
\* non-decreasing order returns with the array as it was, and the array a call
\* returns with is left as it is by a second call.
C11_SortIsIdempotent ==
    (workers >= 1 /\ Returned /\ (Radix => RangeRepresentable(input))) =>
        /\ IsSorted(input) => arr = input
        /\ arr = (IF Quick THEN SortInts(arr) ELSE OneWorkerRadix(arr))

\* The caller waits in its send on a channel no goroutine receives from.
SendHangs == Quick /\ pc = "send" /\ wk = <<>> /\ ~HasRoom(queue, capacity)

\* C12: a call of either engine with a worker count <= 0 (here on an array of
\* two elements or more) is rejected: it does not return as if it had sorted,
\* it leaves the array as it was, and it does not wait forever.
C12_NonPositiveWorkersRejected ==
    (workers <= 0 /\ ~IsTrivial(input)) =>
        /\ arr = input
        /\ ~Returned
        /\ ~SendHangs

\* The passes of parallelCountingSort are under way.
InPasses == pc \in {"loop", "count", "join", "merge", "prefix", "place", "copy"}

\* C13: in ParallelRadixSort, when max - min is representable, no element is
\* negative during the digit passes; the offset added before the first pass
\* has been taken off again when the call has returned, so that every value
\* returned is a value of the input; and with a minimum >= 0 there is no
\* offset.
C13_OffsetRestored ==
    (Radix /\ workers >= 1 /\ RangeRepresentable(input) /\ ~IsTrivial(input)) =>
        /\ InPasses => \A i \in DOMAIN arr : arr[i] >= 0
        /\ (pc # "start" /\ minVal >= 0) => offset = 0
        /\ Returned => Range(arr) \subseteq Range(input)

\* The activations of quickSortPartition: one per frame of a worker's stack.
Executing ==
    UNION {{<<w, k>> : k \in 1..Len(wk[w].stack)} : w \in DOMAIN wk}

\* The goroutines between a wg.Add(1) and the send or select that follows it.
HandingOver ==
    {w \in DOMAIN wk : wk[w].stack # <<>> /\ Top(w).pc \in {"selL", "selR"}}
        \cup (IF pc = "send" THEN {0} ELSE {})

\* The goroutines whose job has returned and whose wg.Done() is still to come.
Returning ==
    {w \in DOMAIN wk : wk[w].st = "busy" /\ wk[w].stack = <<>>}
        \cup {w \in DOMAIN wk : wk[w].stack # <<>> /\ Top(w).pc \in {"doneL", "doneR"}}

\* C14, as stated: in every reachable state of a ParallelQuickSort call the
\* counter equals the number of jobs queued plus the number of jobs being
\* executed (on a worker or inline), and is never negative.
C14_CounterIsQueuedPlusRunning ==
    Quick => (wg >= 0 /\ wg = Len(queue) + Cardinality(Executing))

\* C14, amended: the counter is never negative and equals the number of jobs
\* queued, plus the jobs being executed, plus the jobs counted by wg.Add(1)
\* and not yet sent or started, plus the jobs that have returned and whose
\* wg.Done() has not run yet; it is 1 when the caller sends the whole-array
\* job, every job handed over was counted once before, and the counter is 0
\* when the call has returned.
C14_CounterCountsPendingJobs ==
    Quick =>
        /\ wg >= 0
        /\ wg = Len(queue) + Cardinality(Executing) + Cardinality(HandingOver)
                + Cardinality(Returning)
        /\ pc = "send" => wg = 1
        /\ \A s \in DOMAIN jobLog : jobLog[s].made = 1
        /\ Returned => wg = 0

\* The counter is 3: one job is queued and another runs inline under the job
\* that submitted both.
C14_Witness ==
    /\ Quick /\ queue # <<>> /\ wg = 3
    /\ \E w \in DOMAIN wk : Len(wk[w].stack) = 2

AllExited == \A w \in DOMAIN wk : wk[w].st = "exited"

NotExited == {w \in DOMAIN wk : wk[w].st # "exited"}

C15_ClosedState ==
    Quick =>
        /\ closed => (wg = 0 /\ queue = <<>> /\ pc = "done")
        /\ closed => \A w \in DOMAIN wk : wk[w].st \in {"idle", "exited"}
        /\ closed => \A w \in NotExited : ENABLED WorkerExit(w)
        /\ (chanMade /\ Returned) => closed

C15_ClosedStep ==
    (Quick /\ closed) =>
        /\ closed' /\ queue' = queue /\ wg' = wg
        /\ Cardinality(NotExited') < Cardinality(NotExited)

\* C15: the channel is closed once, by the caller's last step, when the
\* counter is zero; it stays closed and nothing is sent on it afterwards; and
\* once it is closed every worker is idle or gone, each remaining worker can
\* leave its loop, and every step is such a leave: so every worker leaves.
C15_ClosedOnceThenWorkersExit ==
    /\ []C15_ClosedState
    /\ [][C15_ClosedStep]_vars
    /\ [][(Quick /\ closed' /\ ~closed) => (pc = "close" /\ wg = 0)]_vars

\* The channel is closed and all the workers have left their loops.
C15_Witness ==
    /\ Quick /\ closed /\ workers = MaxWorkers /\ AllExited
    /\ Cardinality(DOMAIN jobLog) >= 3

\* The frames in their step on the array: entered, the partition or the
\* library sort not yet done.
InStep == {e \in Executing : wk[e[1]].stack[e[2]].pc = "enter"}

StepSpan(e) == Span(wk[e[1]].stack[e[2]].lo, wk[e[1]].stack[e[2]].hi)

\* The array with every element outside lo..hi replaced by a fixed value.
Masked(a, lo, hi) == [i \in DOMAIN a |-> IF lo <= i - 1 /\ i - 1 <= hi THEN a[i] ELSE 0]

C20_StepsDisjoint ==
    Quick =>
        /\ \A e, f \in InStep : e # f => Disjoint(StepSpan(e), StepSpan(f))
        /\ \A e \in InStep : e[2] = Len(wk[e[1]].stack)
        /\ \A e \in InStep : \A s \in DOMAIN jobLog :
              ~(Inside(s, StepSpan(e)) /\ s # StepSpan(e))
        /\ \A e \in InStep :
              LET s == StepSpan(e)
              IN  (s[1] < s[2] /\ ~IsSmall(s[1], s[2])) =>
                    LET p == Partition(version, arr, s[1], s[2])
                        q == Partition(version, Masked(arr, s[1], s[2]), s[1], s[2])
                    IN  /\ p.lt = q.lt /\ p.gt = q.gt
                        /\ Masked(p.arr, s[1], s[2]) = q.arr

C20_WritesInsideStep ==
    Quick => \A i \in DOMAIN arr :
        arr'[i] # arr[i] =>
            \E e \in InStep :
                /\ StepSpan(e)[1] <= i - 1 /\ i - 1 <= StepSpan(e)[2]
                /\ wk'[e[1]] # wk[e[1]]

\* C20: a job touches the array only in its partition or library-sort step;
\* two jobs in that step at the same time name disjoint spans; the step reads
\* and writes only the indices of its own span; and while a job is in its step
\* no sub-job of it exists (its sub-jobs are created after the step).
C20_NoConcurrentAccess ==
    []C20_StepsDisjoint /\ [][C20_WritesInsideStep]_vars

\* Two goroutines are in their step at the same time, on spans of two elements
\* or more that are not in order.
C20_Witness ==
    /\ Quick
    /\ \E e, f \in InStep :
          /\ e[1] # f[1]
          /\ StepSpan(e)[1] < StepSpan(e)[2] /\ StepSpan(f)[1] < StepSpan(f)[2]
          /\ ~IsSorted(SubSeq(arr, StepSpan(e)[1] + 1, StepSpan(e)[2] + 1))

Constructors == {"NewExperiment", "NewExperimentUsingArray", "NewExperimentFromFactors",
                 "NewExperimentFromFactorsUsingArray"}

Generic == {"NewExperiment", "NewExperimentUsingArray"}

ByName == {"NewExperiment", "NewExperimentFromFactors"}

Rejected == err # NoError /\ expt = Nil

Accepted == err = NoError /\ expt # Nil

\* C16: NewExperiment and NewExperimentFromFactors return a non-nil error and
\* no experiment when the array name is not a key of StandardArrays.
C16_UndefinedArrayRejected ==
    (call.op \in ByName /\ call.array \notin DOMAIN StandardArrays) => Rejected

\* NewExperiment was given a valid factors struct and the name L99.
C16_Witness ==
    /\ call.op = "NewExperiment" /\ call.array = "L99"
    /\ err = "orthogonal array not defined" /\ expt = Nil

\* The exported []float64 fields of a factors struct.
LevelFields(v) ==
    {i \in DOMAIN v.fields : v.fields[i].exported /\ v.fields[i].type = "[]float64"}

\* The number of control factors a constructor call hands over.
FactorCount ==
    IF call.op \in Generic THEN Cardinality(LevelFields(call.factors))
    ELSE Len(call.factors)

\* The array of a constructor call has a first row, whose length the
\* constructors take as the number of columns.
HasColumns ==
    IF call.op \in ByName THEN call.array \in DOMAIN StandardArrays
    ELSE call.array # <<>>

Columns ==
    IF call.op \in ByName THEN Len(StandardArrays[call.array][1])
    ELSE Len(call.array[1])

\* C17, as stated: every constructor returns an error when the number of
\* control factors exceeds the number of columns of the array and accepts
\* every factor count up to and including the column count; so a constructed
\* experiment has at most as many control factors as array columns.
C17_FactorCountWithinColumns ==
    /\ (call.op \in Constructors /\ HasColumns /\ call.factors.kind = "struct"
            /\ FactorCount > Columns) => Rejected
    /\ (call.op \in Constructors /\ HasColumns /\ call.factors.kind = "struct"
            /\ FactorCount <= Columns) => Accepted
    /\ expt # Nil => Len(expt.ControlFactors) <= Len(expt.OrthogonalArray[1])

\* The factors a generic constructor is given can be extracted: a struct with
\* at least one exported []float64 field, each of two levels or more.
Extractable ==
    call.op \in Generic =>
        /\ call.factors.kind = "struct"
        /\ LevelFields(call.factors) # {}
        /\ \A i \in LevelFields(call.factors) : Len(call.factors.fields[i].levels) >= 2

\* C17, amended: every constructor returns an error when the number of
\* control factors exceeds the length of the array's first row, and, when the
\* array is defined and not empty and (for the generic constructors) the
\* factors struct has at least one exported []float64 field and each has two
\* levels or more, accepts every factor count up to and including that length;
\* so a constructed experiment has at most as many control factors as its
\* array's first row has columns.
C17_FactorCountWithinFirstRow ==
    /\ (call.op \in Constructors /\ HasColumns /\ FactorCount > Columns) => Rejected
    /\ (call.op \in Constructors /\ HasColumns /\ Extractable /\ FactorCount <= Columns) =>
            (Accepted /\ Len(expt.ControlFactors) = FactorCount)
    /\ expt # Nil => Len(expt.ControlFactors) <= Len(expt.OrthogonalArray[1])

\* NewExperimentFromFactors has accepted three factors on L4, which has three
\* columns.
C17_Witness ==
    /\ call.op = "NewExperimentFromFactors" /\ call.array = "L4"
    /\ Len(call.factors) = 3 /\ Accepted /\ Len(expt.ControlFactors) = 3

C18_ResultsAreTheCalls ==
    expt # Nil =>
        /\ Len(expt.Results) = Len(added)
        /\ \A i \in DOMAIN added :
              /\ expt.Results[i].Trial = added[i].trial
              /\ expt.Results[i].Observations = added[i].observations

C18_AddResultStep ==
    (call'.op = "AddResult" /\ added' # added) =>
        /\ Len(expt'.Results) = Len(expt.Results) + 1
        /\ SubSeq(expt'.Results, 1, Len(expt.Results)) = expt.Results
        /\ expt'.Results[Len(expt'.Results)].Trial = call'.trial
        /\ expt'.Results[Len(expt'.Results)].Observations = call'.observations
        /\ \A f \in {"ControlFactors", "NoiseFactors", "Goal", "OrthogonalArray", "controlAs"} :
              expt'[f] = expt[f]
        /\ err' = err

\* C18: each AddResult call appends one TrialResult holding its trial and
\* observations: after k calls Results holds the k results in call order, the
\* earlier entries are as they were, a repeated trial gives a separate entry,
\* and no other field of the experiment changes.
C18_AddResultAppends ==
    []C18_ResultsAreTheCalls /\ [][C18_AddResultStep]_vars

\* Three results were added, the first two for the same trial with the same
\* observations, the third another.
C18_Witness ==
    /\ expt # Nil /\ Len(expt.Results) = 3
    /\ expt.Results[1] = expt.Results[2]
    /\ expt.Results[3] # expt.Results[1]

\* C19: Params(trial) of an experiment whose P is a struct type returns a
\* struct in which every exported float64 field is trial.Control[name] when
\* the map has that key and 0 when it has not; an experiment built by a
\* FromFactors constructor (no converter) returns the zero value of struct{}.
C19_ParamsFromControl ==
    (call.op = "Params") =>
        IF expt.controlAs = Nil THEN ret = [value |-> EmptyMap, panic |-> FALSE]
        ELSE expt.controlAs.P.kind = "struct" =>
            /\ ~ret.panic
            /\ \A i \in DOMAIN expt.controlAs.P.fields :
                  LET f == expt.controlAs.P.fields[i]
                  IN  (f.exported /\ f.type = "float64") =>
                        ret.value[f.name] = (IF f.name \in DOMAIN call.trial.Control
                                             THEN call.trial.Control[f.name] ELSE 0)

\* Params was called with both keys present on a two-field params struct.
C19_Witness ==
    /\ call.op = "Params" /\ expt.controlAs # Nil
    /\ expt.controlAs.P.kind = "struct" /\ Len(expt.controlAs.P.fields) = 2
    /\ DOMAIN call.trial.Control = {"A", "B"}
    /\ ret.value["A"] = 2 /\ ret.value["B"] = 20



SortedIn(a, lo, hi) == \A i \in lo..(hi - 1) : At(a, i) <= At(a, i + 1)

\* The frames whose submitJob call is about to return from its default branch:
\* the inline quickSortPartition has returned, wg.Done() is next.
InlineReturned(w) == HasFrame(w) /\ Top(w).pc \in {"doneL", "doneR"}

\* A job of a sub-range of s that has not returned yet.
PendingInside(s, i) ==
    \E t \in DOMAIN jobLog :
        /\ t # s /\ s[1] <= t[1] /\ t[2] <= s[2]
        /\ ~jobLog[t].finished
        /\ t[1] <= i /\ i + 1 <= t[2]

Queued(s) == Cardinality({i \in DOMAIN queue : queue[i] = s})
Holders(s) ==
    Cardinality({w \in DOMAIN wk :
        wk[w].st = "busy" /\ wk[w].stack # <<>>
        /\ Span(wk[w].stack[1].lo, wk[w].stack[1].hi) = s})

EnqueuedJobs == {s \in DOMAIN jobLog : jobLog[s].how = "queued"}

\* An enqueued job is in one place at a time (one slot of the channel, or one
\* worker), is entered at most once, by a worker, and once it has returned
\* it is in no place and was entered once; nothing but enqueued jobs is in
\* the channel, and a returned call leaves none behind.
C22_OnePlace ==
    Quick =>
        /\ \A s \in EnqueuedJobs :
                /\ jobLog[s].made = 1 /\ jobLog[s].runs <= 1
                /\ Queued(s) + Holders(s) = (IF jobLog[s].finished THEN 0 ELSE 1)
                /\ Queued(s) = 1 => jobLog[s].runs = 0
                /\ jobLog[s].runs = 1 => jobLog[s].runner \in DOMAIN wk
                /\ jobLog[s].finished => jobLog[s].runs = 1
        /\ \A i \in DOMAIN queue : queue[i] \in EnqueuedJobs
        /\ Returned =>
                /\ queue = <<>>
                /\ \A s \in EnqueuedJobs : jobLog[s].finished

\* C22: every job that is enqueued is dequeued by a worker and run to its end
\* exactly once: it is never lost or run twice, none is left in the channel
\* when the call returns, and (no state is stuck, every step lowers the bound
\* on the steps left) under fair scheduling the call does return.
C22_EnqueuedJobsRunOnce ==
    /\ []C22_OnePlace
    /\ []C3_NotStuck
    /\ [][C3_Progress]_vars

\* A call has returned after three or more jobs went through the channel, both
\* workers having run some.
C22_Witness ==
    /\ Quick /\ Returned /\ workers = MaxWorkers
    /\ Cardinality(EnqueuedJobs) >= 3
    /\ \A w \in DOMAIN wk : \E s \in EnqueuedJobs : jobLog[s].runner = w

\* The step of worker w is its entry into quickSortPartition.
Enters(w) == HasFrame(w) /\ Top(w).pc = "enter" /\ wk'[w] # wk[w]

\* The call of quickSortPartition has returned: its frame is gone.
FrameGone(w) == wk'[w].stack = SubSeq(wk[w].stack, 1, Len(wk[w].stack) - 1)

\* arr[lo..hi] was sorted in place by the step, the rest of the array is as
\* it was, and no job was created.
SortedSequentially(w) ==
    LET f == Top(w)
    IN  /\ SortedIn(arr', f.lo, f.hi)
        /\ SameMultiset(SubSeq(arr', f.lo + 1, f.hi + 1), SubSeq(arr, f.lo + 1, f.hi + 1))
        /\ \A i \in DOMAIN arr : (i < f.lo + 1 \/ i > f.hi + 1) => arr'[i] = arr[i]
        /\ FrameGone(w)
        /\ DOMAIN jobLog' = DOMAIN jobLog /\ wg' = wg /\ queue' = queue

\* The range was partitioned by the step, and the call goes on to submit
\* the two sub-ranges.
PartitionedAndSubmitting(w) ==
    LET f == Top(w)
        g == wk'[w].stack[Len(wk'[w].stack)]
    IN  /\ Len(wk'[w].stack) = Len(wk[w].stack)
        /\ g.lo = f.lo /\ g.hi = f.hi /\ g.pc = "subL"
        /\ [arr |-> arr', lt |-> g.lt, gt |-> g.gt] = Partition(version, arr, f.lo, f.hi)

\* quickSortPartition on a range of n elements: with n <= 1 it returns at
\* once; with 1 < n <= limit it sorts sequentially; with n > limit it
\* partitions.
ThresholdRule(w, limit) ==
    Enters(w) =>
        LET n == Top(w).hi - Top(w).lo + 1
        IN  IF n <= 1 THEN arr' = arr /\ FrameGone(w)
            ELSE IF n <= limit THEN SortedSequentially(w)
            ELSE PartitionedAndSubmitting(w)

\* A frame is past the partition only for a range of more than limit
\* elements, and then its next steps are the two submitJob calls.
PartitionedOnlyAbove(limit) ==
    \A w \in DOMAIN wk : \A k \in DOMAIN wk[w].stack :
        LET f == wk[w].stack[k]
        IN  f.pc # "enter" =>
                /\ f.hi - f.lo + 1 > limit
                /\ k = Len(wk[w].stack) /\ f.pc \in {"subL", "subR"} => ENABLED SubmitAdd(w)

\* C23 as stated: a range is sorted sequentially, without partition or
\* sub-jobs, exactly when it holds fewer than sortThreshold elements; a range
\* of sortThreshold elements or more is partitioned.
C23_FewerThanThreshold ==
    [][Quick => \A w \in DOMAIN wk : ThresholdRule(w, sortThreshold - 1)]_vars

\* C23 (amended): quickSortPartition on a range with lo < hi sorts it
\* sequentially, without partitioning it or creating sub-jobs, exactly when
\* hi - lo < sortThreshold, that is when the range holds at most
\* sortThreshold elements; a range of more than sortThreshold elements is
\* partitioned and its two sub-ranges are submitted.
C23_AtMostThreshold ==
    /\ [][Quick => \A w \in DOMAIN wk : ThresholdRule(w, sortThreshold)]_vars
    /\ [](Quick => PartitionedOnlyAbove(sortThreshold))

\* A job of exactly sortThreshold elements, out of order, has been sorted by
\* the library sort, and a job of more elements has been partitioned.
C23_Witness ==
    /\ Quick /\ Returned /\ Len(input) = MaxLen
    /\ \E s \in DOMAIN jobLog :
            /\ s[2] - s[1] + 1 = sortThreshold /\ jobLog[s].finished
            /\ \A t \in DOMAIN jobLog : ~(t # s /\ Inside(t, s))
            /\ ~SortedIn(input, s[1], s[2])
    /\ \E s \in DOMAIN jobLog : \E t \in DOMAIN jobLog :
            s[2] - s[1] + 1 > sortThreshold /\ t # s /\ Inside(t, s)

\* partition3Way has returned (lt, gt).
PartReturned == alg = "partition3Way" /\ part.pc = "returned"

RangeOf(a, lo, hi) == SubSeq(a, lo + 1, hi + 1)

\* C24: when partition3Way returns (lt, gt) for a range lo < hi, every element
\* of arr[lo..lt-1] is less than the pivot, every element of arr[lt..gt]
\* equals it, every element of arr[gt+1..hi] is greater, and arr[lo..hi] is a
\* permutation of what it held at the call; the result is the one the
\* engine's partition step uses.
C24_ThreeZones ==
    PartReturned =>
        /\ \A k \in part.lo..(part.lt - 1) : At(arr, k) < part.pivot
        /\ \A k \in part.lt..part.gt : At(arr, k) = part.pivot
        /\ \A k \in (part.gt + 1)..part.hi : At(arr, k) > part.pivot
        /\ SameMultiset(RangeOf(arr, part.lo, part.hi), RangeOf(input, part.lo, part.hi))
        /\ [arr |-> arr, lt |-> part.lt, gt |-> part.gt]
                = partition3Way(input, part.lo, part.hi)

\* A call has returned with the three zones non-empty, two elements equal to
\* the pivot, and the range reordered.
C24_Witness ==
    /\ PartReturned
    /\ part.lo < part.lt /\ part.lt < part.gt /\ part.gt < part.hi
    /\ RangeOf(arr, part.lo, part.hi) # RangeOf(input, part.lo, part.hi)

\* The number of elements of the range [lo, hi].
Length(lo, hi) == hi - lo + 1

\* The two sub-ranges of a returned call.
LeftRange == Span(part.lo, part.lt - 1)
RightRange == Span(part.gt + 1, part.hi)

C25_SubRanges ==
    PartReturned =>
        /\ part.lo <= part.lt /\ part.lt <= part.gt /\ part.gt <= part.hi
        /\ LeftRange[2] < RightRange[1]
        /\ part.lo <= LeftRange[1] /\ LeftRange[2] <= part.hi
        /\ part.lo <= RightRange[1] /\ RightRange[2] <= part.hi
        /\ Length(LeftRange[1], LeftRange[2]) < Length(part.lo, part.hi)
        /\ Length(RightRange[1], RightRange[2]) < Length(part.lo, part.hi)
        /\ \A k \in (LeftRange[1]..LeftRange[2]) \cup (RightRange[1]..RightRange[2]) :
                At(arr, k) # part.pivot

\* A nested call is on a range inside its parent's and strictly shorter.
C25_Nested ==
    (alg = "partition3Way" /\ part.pc = "returned" /\ part'.pc = "call") =>
        /\ part.lo <= part'.lo /\ part'.hi <= part.hi
        /\ Length(part'.lo, part'.hi) < Length(part.lo, part.hi)
        /\ part'.depth = part.depth + 1

\* The depth of a chain of nested calls plus the length of its last range
\* never exceeds the length of the array.
C25_ChainBounded ==
    alg = "partition3Way" => part.depth + Length(part.lo, part.hi) <= Len(arr)

\* C25: after partition3Way on a range lo < hi, lo <= lt <= gt <= hi; the
\* sub-ranges [lo, lt-1] and [gt+1, hi] are disjoint, lie inside [lo, hi], are
\* each strictly shorter than [lo, hi] and hold no element equal to the
\* pivot; every nested call is on a strictly shorter range, so every chain
\* of nested jobs is finite (no longer than the array).
C25_SubRangesShrink ==
    /\ []C25_SubRanges
    /\ [][C25_Nested]_vars
    /\ []C25_ChainBounded

\* A nested call, on a sub-range of three elements, has returned with both
\* its own sub-ranges non-empty.
C25_Witness ==
    /\ PartReturned /\ part.depth = 1
    /\ Length(part.lo, part.hi) = 3
    /\ part.lo < part.lt /\ part.gt < part.hi

\* The three compare-and-swap steps are done and the loop has not started.
AfterMedian ==
    /\ alg = "partition3Way" /\ part.pc = "loop"
    /\ part.i = part.lo /\ part.gt = part.hi

\* The median of three values: at least two of them are <= it, and at least
\* two are >= it.
MedianValue(x, y, z) ==
    LET v == <<x, y, z>>
    IN  CHOOSE m \in {x, y, z} :
            /\ Cardinality({k \in 1..3 : v[k] <= m}) >= 2
            /\ Cardinality({k \in 1..3 : v[k] >= m}) >= 2

\* C26: in partition3Way, after the three compare-and-swap steps,
\* arr[lo] <= arr[mid] <= arr[hi] with mid = lo + (hi-lo)/2, only the
\* positions lo, mid, hi may have changed, and the pivot, taken from arr[mid],
\* is the median of the three values that were at lo, mid and hi at the call
\* (three positions: hi - lo >= 2, as in every call quickSortPartition makes).
C26_MedianOfThree ==
    AfterMedian =>
        /\ part.mid = part.lo + ((part.hi - part.lo) \div 2)
        /\ At(arr, part.lo) <= At(arr, part.mid)
        /\ At(arr, part.mid) <= At(arr, part.hi)
        /\ part.pivot = At(arr, part.mid)
        /\ \A k \in 0..(Len(arr) - 1) :
                k \notin {part.lo, part.mid, part.hi} => At(arr, k) = At(input, k)
        /\ SameMultiset(arr, input)
        /\ part.hi - part.lo >= 2 =>
                part.pivot = MedianValue(At(input, part.lo), At(input, part.mid),
                                         At(input, part.hi))

\* Three different values, the largest in the middle and the smallest last:
\* all three swaps were made.
C26_Witness ==
    /\ AfterMedian /\ part.hi - part.lo >= 3
    /\ At(input, part.hi) < At(input, part.lo)
    /\ At(input, part.lo) < At(input, part.mid)
    /\ part.pivot = At(input, part.lo)

StrictlyAscending(a, lo, hi) == \A k \in lo..(hi - 1) : At(a, k) < At(a, k + 1)
StrictlyDescending(a, lo, hi) == \A k \in lo..(hi - 1) : At(a, k) > At(a, k + 1)

\* The range was strictly ascending or strictly descending at the call.
Monotone ==
    \/ StrictlyAscending(input, part.lo, part.hi)
    \/ StrictlyDescending(input, part.lo, part.hi)

\* How many elements of the range at the call were smaller than v.
RankIn(v) ==
    Cardinality({k \in part.lo..part.hi : At(input, k) < v})

AbsDiff(x, y) == IF x >= y THEN x - y ELSE y - x

\* C27: for a range of strictly ascending or strictly descending distinct
\* values, partition3Way returns lt = gt, the pivot being a median of the
\* range and lt the position it belongs at, so the two sub-ranges differ in
\* length by at most one.  For a range of three elements or more (as every
\* range the engine partitions is) that position is a middle one,
\* lo + (hi-lo)/2 for an ascending range and lo + (hi-lo+1)/2 for a
\* descending one, and neither sub-range is empty.
C27_MonotoneRangeSplitInHalf ==
    (PartReturned /\ Monotone) =>
        /\ part.lt = part.gt
        /\ Length(part.lo, part.hi) >= 3 =>
                part.lt = (IF StrictlyAscending(input, part.lo, part.hi)
                           THEN part.lo + ((part.hi - part.lo) \div 2)
                           ELSE part.lo + ((part.hi - part.lo + 1) \div 2))
        /\ RankIn(part.pivot) = part.lt - part.lo
        /\ RankIn(part.pivot) \in {(Length(part.lo, part.hi) - 1) \div 2,
                                    Length(part.lo, part.hi) \div 2}
        /\ AbsDiff(Length(LeftRange[1], LeftRange[2]),
                   Length(RightRange[1], RightRange[2])) <= 1
        /\ Length(part.lo, part.hi) >= 3 =>
                /\ Length(LeftRange[1], LeftRange[2]) >= 1
                /\ Length(RightRange[1], RightRange[2]) >= 1

\* The call has returned for a descending range of four elements or more.
C27_Witness ==
    /\ PartReturned /\ part.depth = 0
    /\ Length(part.lo, part.hi) >= 4
    /\ StrictlyDescending(input, part.lo, part.hi)
    /\ part.lt = part.gt

IsEmptySpan(s) == s[1] >= s[2]

\* The step of worker w is the start of a submitJob call.
Submits(w) == HasFrame(w) /\ Top(w).pc \in {"subL", "subR"} /\ wk'[w] # wk[w]

\* submitJob for a span with lo >= hi returns at once: nothing is enqueued,
\* the counter and the array are as they were, no job is created.
C28_SubmitNoOp ==
    \A w \in DOMAIN wk :
        (Submits(w) /\ IsEmptySpan(SubSpan(Top(w)))) =>
            /\ queue' = queue /\ wg' = wg /\ arr' = arr
            /\ DOMAIN jobLog' = DOMAIN jobLog
            /\ wk'[w] = Advanced(w)[w]

\* quickSortPartition for a span with lo >= hi returns at once: the array,
\* the channel and the counter are as they were, no job is created.
C28_PartitionNoOp ==
    \A w \in DOMAIN wk :
        (Enters(w) /\ IsEmptySpan(Span(Top(w).lo, Top(w).hi))) =>
            /\ arr' = arr /\ queue' = queue /\ wg' = wg
            /\ DOMAIN jobLog' = DOMAIN jobLog
            /\ FrameGone(w)

\* Every job submitJob creates, every job in the channel and every inline
\* call is for a span with lo < hi.
C28_JobsNonEmpty ==
    /\ \A s \in DOMAIN jobLog : jobLog[s].by # 0 => ~IsEmptySpan(s)
    /\ \A i \in DOMAIN queue : ~IsEmptySpan(queue[i])
    /\ \A w \in DOMAIN wk : \A k \in 2..Len(wk[w].stack) :
            ~IsEmptySpan(Span(wk[w].stack[k].lo, wk[w].stack[k].hi))

\* C28: a sub-span with lo >= hi is a no-op: submitJob for it enqueues
\* nothing, leaves the pending-work counter and the array as they were, and
\* quickSortPartition on it returns without touching the array; a job is
\* created only for a span with lo < hi.
C28_EmptySpanIsNoOp ==
    /\ [][C28_SubmitNoOp]_vars
    /\ [][C28_PartitionNoOp]_vars
    /\ []C28_JobsNonEmpty

\* quickSortPartition has returned for a job with lo > hi on an unsorted
\* array, which is as it was.
C28_Witness ==
    /\ Quick /\ Returned /\ ~IsSorted(arr)
    /\ \E s \in DOMAIN jobLog : s[1] > s[2] /\ jobLog[s].finished /\ jobLog[s].runs = 1

\* The pass is just before its placement loop (line 503).
BeforePlacement == Radix /\ pc = "place"

\* How many elements of the array have a digit, at the position of the
\* pass, that is in D.
DigitCount(D) ==
    Cardinality({i \in 0..(Len(arr) - 1) : Digit(At(arr, i), exp, base) \in D})

\* C29 as stated: just before the placement step, cumulative[d] is the number
\* of elements whose digit is less than d (an exclusive prefix sum).
C29_ExclusivePrefixSum ==
    BeforePlacement =>
        \A d \in 0..(base - 1) : globalCount[d] = DigitCount(0..(d - 1))

\* C29 (amended): in each radix pass, just before the placement step,
\* cumulative[d] is the number of elements whose digit at the current
\* position is less than or equal to d, for every digit d (an inclusive
\* prefix sum of the global histogram); the last entry is the array's length.
C29_InclusivePrefixSum ==
    BeforePlacement =>
        /\ \A d \in 0..(base - 1) : globalCount[d] = DigitCount(0..d)
        /\ globalCount[base - 1] = Len(arr)

\* The second pass of a call with two workers is before its placement, the
\* elements having different digits at that position.
C29_Witness ==
    /\ BeforePlacement /\ workers = MaxWorkers /\ exp = base
    /\ Len(arr) = MaxLenRadix
    /\ \E i \in DOMAIN arr : \E j \in DOMAIN arr :
            Digit(arr[i], exp, base) # Digit(arr[j], exp, base)

\* The step is the end of a pass: copy(arr, output) and the return of
\* parallelCountingSort.
PassEnds == Radix /\ pc = "copy" /\ pc' = "loop"

\* The elements of a whose digit at position e is d, in the order they have
\* in a.
WithDigit(a, e, d) == SelectSeq(a, LAMBDA v : Digit(v, e, base) = d)

\* The array is not written between the start of a pass and its copy, so at
\* the copy it still holds what it held before the pass.
C30_ReadOnlyUntilCopy ==
    (Radix /\ pc \in {"count", "merge", "prefix", "place"}) => arr' = arr

C30_Pass ==
    PassEnds =>
        /\ workers >= 1
        /\ SameMultiset(arr', arr)
        /\ \A i \in 1..(Len(arr') - 1) :
                Digit(arr'[i], exp, base) <= Digit(arr'[i + 1], exp, base)
        /\ \A d \in {Digit(arr[i], exp, base) : i \in DOMAIN arr} :
                WithDigit(arr', exp, d) = WithDigit(arr, exp, d)

\* C30: one call of parallelCountingSort for digit position exp leaves the
\* array a permutation of its contents before the pass, in non-decreasing
\* order of the digit (v / exp) mod base, elements of equal digit keeping
\* their relative order (the pass is stable), for every worker count >= 1.
C30_PassIsStableSort ==
    /\ [][C30_ReadOnlyUntilCopy]_vars
    /\ [][C30_Pass]_vars

\* A second pass has ended, with two workers, on an array where two
\* different values have the same digit at that position and a third value
\* has another.
C30_Witness ==
    /\ Radix /\ pc = "loop" /\ workers = MaxWorkers /\ Len(passes) = 2
    /\ \E i \in DOMAIN arr : \E j \in DOMAIN arr : \E k \in DOMAIN arr :
            /\ arr[i] # arr[j]
            /\ Digit(arr[i], base, base) = Digit(arr[j], base, base)
            /\ Digit(arr[k], base, base) # Digit(arr[i], base, base)

\* Between two passes, or after the last one: every pass started has
\* completed.
BetweenPasses == Radix /\ pc \in {"loop", "restore"} /\ passes # <<>>

\* The exp of the last pass run.
LastExp == passes[Len(passes)]

SortedModulo(a, m) == \A i \in 1..(Len(a) - 1) : GoMod(a[i], m) <= GoMod(a[i + 1], m)

\* The loop has ended: by its test, or with exp wrapped to 0 after the pass
\* for the last digit the integer type has.
PassesOver == pc = "restore" \/ (pc = "loop" /\ exp = 0)

\* C31: in ParallelRadixSort, after the pass for digit position k
\* (exp = base^k) has completed, the array is in non-decreasing order of
\* value mod base^(k+1); after the last pass this is the order of the full
\* (offset-corrected) values, for an input whose range max - min is
\* representable.
C31_SortedUpToDigit ==
    BetweenPasses =>
        /\ SortedModulo(arr, LastExp * base)
        /\ (PassesOver /\ RangeRepresentable(input)) =>
                /\ IsSorted(arr)
                /\ \A i \in DOMAIN arr : arr[i] >= 0

\* Two passes have completed, with two workers, on three different values
\* that were not in order.
C31_Witness ==
    /\ BetweenPasses /\ Len(passes) = 2 /\ workers = MaxWorkers
    /\ Len(arr) = MaxLenRadix /\ Cardinality(Range(arr)) = MaxLenRadix
    /\ ~IsSorted(input)
    /\ PassesOver

\* The number of base-b digits of m >= 0 (0 has none), and b to the power k.
RECURSIVE NumDigits(_, _)
NumDigits(m, b) == IF m <= 0 THEN 0 ELSE 1 + NumDigits(m \div b, b)

RECURSIVE Power(_, _)
Power(b, k) == IF k = 0 THEN 1 ELSE b * Power(b, k - 1)

\* One pass per digit of m, lowest digit first: exp = b^0, b^1, ...
PassesFor(m, b) == [k \in 1..NumDigits(m, b) |-> Power(b, k - 1)]

IsPrefix(p, q) == Len(p) <= Len(q) /\ \A i \in 1..Len(p) : p[i] = q[i]

\* The pass loop has been entered (the array is not trivial).
InPassLoop == Radix /\ ~IsTrivial(input) /\ pc # "start"

\* The pass loop has been left by its guard.
LoopLeft == InPassLoop /\ pc \in {"restore", "done"}

\* C32: ParallelRadixSort runs exactly one pass per base-256 digit of the
\* offset-corrected maximum: the passes run so far are always the first ones
\* of exp = 1, 256, 256^2, ... up to the leading digit of the maximum, in
\* increasing order, the loop is left only when all of them have been run, and
\* none is run when the maximum is 0.
C32_OnePassPerDigit ==
    InPassLoop =>
        /\ IsPrefix(passes, PassesFor(maxVal, base))
        /\ LoopLeft => passes = PassesFor(maxVal, base)
        /\ maxVal = 0 => passes = <<>>

\* The loop was left after two passes, for a maximum of two digits.
C32_Witness ==
    /\ LoopLeft /\ pc = "done"
    /\ passes = <<1, base>>
    /\ maxVal >= base /\ maxVal < base * base
    /\ workers = MaxWorkers /\ Len(input) = MaxLenRadix

\* C33: for every offset-corrected maximum the pass loop terminates: exp never
\* wraps around to 0 when multiplied by the base, and the loop guard
\* maxVal / exp never divides by zero (the call does not panic), for a valid
\* worker count and an input whose range is representable.
C33_ExpNeverWraps ==
    (InPassLoop /\ workers >= 1 /\ RangeRepresentable(input)) =>
        /\ exp # 0
        /\ pc # "panic"

\* Every histogram goroutine of the pass has stored the histogram of its chunk.
AllCounted ==
    \A w \in 0..(workers - 1) :
        localCounts[w] = Histogram(arr, Chunk(w, chunkSize, Len(arr)), exp, base)

\* Where the caller is once wg.Wait() of a pass has returned.
AfterJoin == {"merge", "prefix", "place", "copy"}

\* Histogram goroutines exist only during the counting step: the merge and
\* everything after it, up to the return of ParallelRadixSort, runs with none
\* of them running and with every local histogram stored; the placement
\* starts on the complete prefix sum of the merged histogram.
C34_StepsInOrder ==
    Radix =>
        /\ pc \notin {"count", "panic"} => running = {}
        /\ pc \in AfterJoin => AllCounted
        /\ pc = "place" =>
                globalCount = PrefixSum(MergeCounts(localCounts, workers, base), base)

\* The goroutines of a pass are started from the loop of ParallelRadixSort
\* only, and those of a pass after the first only when the array holds the
\* output of the pass before; a goroutine finishes only in the counting step.
C34_PassAfterCopy ==
    Radix =>
        /\ (pc' = "count" /\ pc # "count") =>
                /\ pc = "loop" /\ running = {}
                /\ passes # <<>> => arr = output
        /\ running' # running => pc \in {"loop", "count"}

\* C34: within a radix pass the steps run in strict sequence: the merge
\* starts only after every histogram goroutine of the pass has finished, the
\* placement only after the prefix sum is complete, no goroutine of the next
\* pass is started before the copy-back of this one has finished, and none is
\* running when parallelCountingSort returns.
C34_StrictSequence ==
    /\ []C34_StepsInOrder
    /\ [][C34_PassAfterCopy]_vars

\* In the second pass, one of two histogram goroutines has finished and the
\* other has not: wg.Wait() has to wait.
C34_Witness ==
    /\ Radix /\ pc = "count" /\ Len(passes) = 2 /\ workers = MaxWorkers
    /\ Cardinality(running) = 1
    /\ Len(arr) = MaxLenRadix

\* The shared locations a histogram goroutine touches: the array indices it
\* reads and the slot of the per-worker table it writes (its counts slice is
\* its own until it is stored there).
WorkerReads(w) == {<<"arr", i>> : i \in Chunk(w, chunkSize, Len(arr))}
WorkerWrites(w) == {<<"localCounts", w>>}

\* The shared locations the calling goroutine touches in its current step.
CallerReads ==
    CASE pc = "merge" -> {<<"localCounts", w>> : w \in 0..(workers - 1)}
      [] pc = "place" -> {<<"arr", i>> : i \in 0..(Len(arr) - 1)}
      [] OTHER -> {}

CallerWrites ==
    CASE pc = "copy" -> {<<"arr", i>> : i \in 0..(Len(arr) - 1)}
      [] OTHER -> {}

\* No location is touched by two goroutines one of which writes it.
C35_NoConflict ==
    (Radix /\ pc # "panic") =>
        \A w \in running :
            /\ WorkerReads(w) \subseteq {<<"arr", i>> : i \in 0..(Len(arr) - 1)}
            /\ WorkerWrites(w) \cap (CallerReads \cup CallerWrites) = {}
            /\ WorkerReads(w) \cap CallerWrites = {}
            /\ \A v \in running \ {w} :
                    WorkerWrites(w) \cap (WorkerReads(v) \cup WorkerWrites(v)) = {}

\* A step of the counting phase is one goroutine storing the histogram of its
\* own chunk in its own slot: no other slot changes, and neither the array,
\* the output buffer nor the merged histogram is written.
C35_CountStep ==
    (Radix /\ pc = "count" /\ running # {}) =>
        /\ arr' = arr /\ output' = output /\ globalCount' = globalCount
        /\ localCounts' # localCounts =>
                \E w \in running :
                    /\ running' = running \ {w}
                    /\ localCounts' =
                         [localCounts EXCEPT
                            ![w] = Histogram(arr, Chunk(w, chunkSize, Len(arr)), exp, base)]

\* C35: during the counting phase of a radix pass each goroutine writes only
\* its own slot of the per-worker table and reads only the array indices of
\* its own chunk, and nothing writes the array or reads the table until all
\* goroutines have joined: no two goroutines access one location with one of
\* them writing.
C35_CountingPhaseRaceFree ==
    /\ []C35_NoConflict
    /\ [][C35_CountStep]_vars

\* Two goroutines are counting at once, in the second pass, each with a
\* chunk of its own.
C35_Witness ==
    /\ Radix /\ pc = "count" /\ Len(passes) = 2
    /\ running = 0..(MaxWorkers - 1) /\ MaxWorkers >= 2
    /\ \A w \in running : WorkerReads(w) # {}

\* The chunks of a pass, one per worker id.
ChunkOf(w) == Chunk(w, chunkSize, Len(arr))

Indices == 0..(Len(arr) - 1)

\* A pass is running: chunkSize and the goroutines have been set up.
InPass == Radix /\ pc \in ({"count"} \cup AfterJoin) /\ workers >= 1 /\ Len(arr) >= 2

\* The chunks are intervals inside [0, n), the non-empty ones follow one
\* another without a gap from index 0 to n - 1, and every index is in exactly
\* one of them.
C36_ChunksPartition ==
    InPass =>
        /\ \A w \in 0..(workers - 1) :
                /\ ChunkOf(w) \subseteq Indices
                /\ ChunkStart(w, chunkSize) >= 0
                /\ (w > 0 /\ ChunkOf(w) # {}) =>
                        ChunkStart(w, chunkSize) = ChunkEnd(w - 1, chunkSize, Len(arr))
        /\ ChunkOf(0) # {} /\ ChunkStart(0, chunkSize) = 0
        /\ \A i \in Indices :
                Cardinality({w \in 0..(workers - 1) : i \in ChunkOf(w)}) = 1

\* The merged histogram, before the prefix sum turns it into positions.
Merged == Radix /\ pc = "prefix" /\ workers >= 1 /\ Len(arr) >= 2

C36_MergedCountsEach ==
    Merged =>
        /\ \A d \in 0..(base - 1) :
                globalCount[d] = Cardinality({i \in Indices : Digit(At(arr, i), exp, base) = d})
        /\ SumSet(globalCount, {d \in 0..(base - 1) : globalCount[d] # 0}) = Len(arr)

\* C36: for every array length n >= 2 and worker count >= 1, more workers
\* than elements included, the chunks [w*chunkSize, min((w+1)*chunkSize, n))
\* are contiguous, pairwise disjoint and cover every index of [0, n) exactly
\* once, no worker reads outside [0, n), and the merged histogram counts each
\* element exactly once: its entries sum to n.
C36_ChunksCoverOnce == C36_ChunksPartition /\ C36_MergedCountsEach

\* The histograms of more workers than the array has elements have been
\* merged: some workers had an empty chunk starting beyond the array.
C36_Witness ==
    /\ Merged /\ workers = MaxChunkWorkers /\ workers > Len(arr)
    /\ \E w \in 0..(workers - 1) : ChunkStart(w, chunkSize) > Len(arr)
    /\ Len(passes) = 2

\* The placement loop is about to run, in its single goroutine.
AtPlacement == Radix /\ pc = "place" /\ workers >= 1

\* The elements the placement loop handles before it reaches index j: those
\* at j + 1 .. n - 1.
After(j) == SubSeq(arr, j + 2, Len(arr))

\* The state of the loop when it reaches index j, and the slot it writes then.
Reaching(j) == Place(After(j), output, globalCount, Len(After(j)) - 1, exp, base)

Slot(j) == Reaching(j).count[Digit(At(arr, j), exp, base)] - 1

\* Every computed output index lies in [0, n), no two iterations compute the
\* same one, so that the n iterations write each slot exactly once.
C37_SlotsOnce ==
    AtPlacement =>
        /\ running = {}
        /\ \A j \in Indices :
                /\ Reaching(j).ok
                /\ Slot(j) \in Indices
                /\ \A k \in Indices \ {j} : Slot(k) # Slot(j)

\* The placement step does not panic, leaves element j in its slot and no
\* cumulative counter below zero.
C37_Placed ==
    (AtPlacement /\ pc' # "place") =>
        /\ pc' = "copy"
        /\ \A j \in Indices : At(output', Slot(j)) = At(arr, j)
        /\ \A d \in DOMAIN globalCount' : globalCount'[d] >= 0

\* The copy-back copies the buffer the placement filled.
C37_CopiesPlaced ==
    PassEnds => (arr' = output /\ SameMultiset(output, arr))

\* C37: in the placement step of every radix pass each computed output index
\* lies in [0, n) and each output slot is written exactly once, by the single
\* placement goroutine; no cumulative counter drops below zero, and the
\* copy-back never copies an unwritten slot.
C37_PlacementInBounds ==
    /\ []C37_SlotsOnce
    /\ [][C37_Placed]_vars
    /\ [][C37_CopiesPlaced]_vars

\* The placement of a second pass is about to run on an array where two
\* elements have the same digit and a third has another.
C37_Witness ==
    /\ AtPlacement /\ Len(passes) = 2 /\ Len(arr) = MaxLenRadix
    /\ \E i \in Indices : \E j \in Indices \ {i} : \E k \in Indices :
            /\ Digit(At(arr, i), exp, base) = Digit(At(arr, j), exp, base)
            /\ Digit(At(arr, k), exp, base) # Digit(At(arr, i), exp, base)

\* partition3Way is running or has returned, on [part.lo, part.hi].
InPartition == alg = "partition3Way" /\ part.pc \in {"call", "loop", "returned"}

\* The indices of the slice that are not in the range of the call.
Outside == {k \in 0..(Len(arr) - 1) : k < part.lo \/ k > part.hi}

\* The indices the next step of partition3Way reads or writes: lo, mid and hi
\* in the median-of-three, i, lt and gt in an iteration of the loop.
Touched ==
    CASE part.pc = "call" -> {part.lo, Mid(part.lo, part.hi), part.hi}
      [] part.pc = "loop" /\ part.i <= part.gt -> {part.i, part.lt, part.gt}
      [] OTHER -> {}

\* Every index a step touches is in the range, and every element outside the
\* range is what it was at the call.
C38_InsideRange ==
    InPartition =>
        /\ Touched \subseteq part.lo..part.hi
        /\ \A k \in Outside : At(arr, k) = At(input, k)

\* No step of the call changes an element outside the range.
C38_StepKeepsOutside ==
    (InPartition /\ part.pc # "returned") =>
        \A k \in Outside : At(arr', k) = At(arr, k)

\* C38: partition3Way called on [lo, hi] reads and writes only indices in
\* [lo, hi]: every array element outside the range is unchanged by the call.
C38_OutsideUnchanged ==
    /\ []C38_InsideRange
    /\ [][C38_StepKeepsOutside]_vars

\* A call on a range with elements on both sides of it has returned, having
\* moved elements inside the range.
C38_Witness ==
    /\ InPartition /\ part.pc = "returned" /\ part.depth = 0
    /\ part.lo > 0 /\ part.hi < Len(arr) - 1
    /\ Length(part.lo, part.hi) >= 3
    /\ arr # input

\* Analyze has been called on the experiment a constructor returned.
Analyzed == expt # Nil /\ call.op = "Analyze"

\* C39: for every experiment accepted by a constructor and every sequence of
\* AddResult calls, Analyze completes without indexing a control factor's
\* Levels outside its bounds.
C39_AnalyzeIndexesInBounds ==
    Analyzed => ~ret.panic

=========================================================================
